---- MODULE Spec2Model ----
(***************************************************************************)
(* Model of the reputation store (HashDB, IpDB), the dataset updater       *)
(* (DBUpdater) and the rule-based Scorer of the NT140 malware-checker      *)
(* browser extension.                                                      *)
(*                                                                         *)
(* Texts are sequences of lines, a line is a sequence of comma-separated   *)
(* columns (a hash line has one column).  An empty text <<>> stands for    *)
(* both `undefined' and the empty string: every use in the code only tests *)
(* the text for truthiness.  64-digit hex digests are abbreviated by short *)
(* names ("aa01" has prefix "aa"); SHA-256 is an injective table on the    *)
(* payloads of the model.                                                  *)
(***************************************************************************)
EXTENDS Integers, Sequences, FiniteSets, TLC

VARIABLES
    storage,        \* browser.storage.local
    localHashes,    \* HashDB.localHashes
    shardCache,     \* HashDB.shardCache     (prefix -> set of hashes)
    shardPromises,  \* HashDB.shardPromises  (prefix -> id of the load promise)
    customHashes,   \* HashDB.customHashes   (sequence of {hash, description})
    loads,          \* the promises created by HashDB.loadShard, by id
    callers,        \* the running / finished HashDB.checkHash calls
    upd,            \* DBUpdater.checkAndUpdateAll: position and locals
    ipMap,          \* IpDB.ipMap (ip -> metadata)
    ipLoaded,       \* IpDB.loaded
    ipLoading,      \* IpDB._loading (0: undefined, else id of the loadAll call)
    ipLoaders,      \* the IpDB.loadAll calls, by id
    ipCallers,      \* the IpDB.isIpBlacklisted calls
    pkgPos,         \* HashDB.loadLocalHashes: files read so far (-1: not called)
    scoreIn,        \* arguments of Scorer.calculateScore
    scoreOut,       \* its return value
    job,            \* a call of downloadAndAnalyzeScript: position and locals
    checkedScripts, \* background script: checkedScripts (url -> stored result)
    mlExportData,   \* background script: mlExportData
    whitelist,      \* background script: whitelist (the patterns, as a set)
    isEnabled,      \* background script: isEnabled
    clock,          \* Date.now(), in ticks of 5 seconds
    approvedTabs,   \* background script: approvedTabs (tabId -> {url, timestamp})
    checks,         \* the pending-check objects created so far, by id
    pendingChecks,  \* background script: pendingChecks (tabId -> id of the object)
    fetches,        \* the fetchPageScripts calls, by id
    analyses,       \* the downloadAndAnalyzeScript calls started for a page
    response,       \* what onBeforeRequest answered to the last request
    gets,           \* listener calls waiting for browser.tabs.get
    polls,          \* checkStatus messages and their answers, in flight
    timers,         \* armed cleanup timers of the checkStatus handler
    blocking,       \* the blocking page of each tab (ui/blocking.js)
    submits,        \* submitHash handlers and storage.onChanged events in flight
    extraction,     \* a call of FeatureExtractor.extractFeatures
    tempico         \* a call of TempicoAPI.checkHash

vars == <<storage, localHashes, shardCache, shardPromises, customHashes, loads,
          callers, upd, ipMap, ipLoaded, ipLoading, ipLoaders, ipCallers,
          pkgPos, scoreIn, scoreOut, job, checkedScripts, mlExportData, whitelist,
          isEnabled, clock, approvedTabs, checks, pendingChecks, fetches, analyses,
          response, gets, polls, timers, blocking,
          submits, extraction, tempico>>

hashVars == <<shardCache, shardPromises, customHashes, loads, callers, pkgPos>>
ipVars == <<ipMap, ipLoaded, ipLoading, ipLoaders, ipCallers>>
scoreVars == <<scoreIn, scoreOut>>
statusVars == <<polls, timers, blocking, submits>>
pageVars == <<gets, statusVars>>
navVars == <<whitelist, isEnabled, clock, approvedTabs, checks, pendingChecks, fetches,
             analyses, response, pageVars>>
bgVars == <<job, checkedScripts, mlExportData, navVars, extraction, tempico>>

----------------------------------------------------------------------------
(* Bounds *)

MaxShardEntries == 2
MaxVersion == 2
MaxCalls == 2
MaxIpCalls == 1
\* scripts analyzed after the first one
MaxAnalyses == 1

----------------------------------------------------------------------------
(* Strings *)

Range(s) == {s[i] : i \in 1..Len(s)}

\* String.prototype.toLowerCase
ToLowerCase(s) ==
    CASE s = "AA01" -> "aa01"
      [] s = "AB01" -> "ab01"
      [] s = "AA" -> "aa"
      [] s = "AB" -> "ab"
      [] s = "D1" -> "d1"
      [] s = "D2" -> "d2"
      [] s = "IP" -> "ip"
      [] s = "Source" -> "source"
      [] s = "Lib" -> "lib"
      [] OTHER -> s

\* String.prototype.trim
Trim(s) ==
    CASE s = " aa02 " -> "aa02"
      [] s = " 2.2.2.2" -> "2.2.2.2"
      [] s = " " -> ""
      [] OTHER -> s

\* /^[a-f0-9]{64}$/.test(l)
IsHex64(l) == l \in {"aa01", "aa02", "ab01", "ab02"}

\* clean.slice(0, 2)
Slice2(s) ==
    CASE s \in {"aa01", "aa02", "aa"} -> "aa"
      [] s \in {"ab01", "ab02", "ab"} -> "ab"
      [] s \in {"AA01", "AA"} -> "AA"
      [] s \in {"AB01", "AB"} -> "AB"
      [] OTHER -> s

Prefixes == {"aa", "ab"}

\* the line as one string has no comma and is not empty
LineString(line) == IF Len(line) = 1 THEN line[1] ELSE ","

\* the loop shared by loadLocalHashes, loadCachedRemote and loadShard
ParseHashes(text) ==
    {ToLowerCase(Trim(LineString(text[i]))) : i \in
        {j \in 1..Len(text) : /\ LineString(text[j]) # ""
                              /\ IsHex64(ToLowerCase(Trim(LineString(text[j]))))}}

----------------------------------------------------------------------------
(* Payloads a server can deliver, and their SHA-256 digests *)

ShaText1 == << <<"aa01">>, <<"AB01">>, <<"">>, <<"junk">> >>
ShaText2 == << <<" aa02 ">>, <<"aa01", "x">> >>
ShaText3 == << <<"ab02">> >>
IpText1 == << <<"IP", "Source">>, <<"9.9.9.9", "feed">>, <<"bad", "feed">> >>
IpText2 == << <<"8.8.8.8">>, <<"">> >>
PkgIp1 == << <<"IP", "Source">>, <<"1.1.1.1", "pkg">> >>
PkgIp2 == << <<" 2.2.2.2", "pkg">> >>

ShaPayloads == {ShaText1, ShaText2, ShaText3}
IpPayloads == {IpText1, IpText2}

\* DBUpdater.sha256Hex: lowercase hex of the SHA-256 of the bytes
sha256Hex(text) ==
    CASE text = ShaText1 -> "d1"
      [] text = ShaText2 -> "d2"
      [] text = ShaText3 -> "d3"
      [] text = IpText1 -> "d4"
      [] text = IpText2 -> "d5"
      [] OTHER -> "d0"

----------------------------------------------------------------------------
(* browser.storage.local *)

NoMeta == [version |-> 0, url |-> "", sha256 |-> "", shardIndexUrl |-> ""]
NoShardMeta == [sha256 |-> "", url |-> ""]

EmptyStorage ==
    [sha256_remote_text |-> <<>>,
     sha256_remote_metadata |-> NoMeta,
     ip_remote_text |-> <<>>,
     ip_remote_metadata |-> NoMeta,
     sha256_shard |-> [p \in Prefixes |-> <<>>],
     sha256_shard_meta |-> [p \in Prefixes |-> NoShardMeta],
     sha256_shards_index |-> <<>>,
     sha256_shardindex_metadata |-> 0,
     customHashes |-> <<>>]

\* what an earlier session's successful updates left in the cache
PriorStorage ==
    [sha256_remote_text |-> ShaText3,
     sha256_remote_metadata |->
        [version |-> 1, url |-> "u", sha256 |-> "d3", shardIndexUrl |-> ""],
     ip_remote_text |-> IpText2,
     ip_remote_metadata |->
        [version |-> 1, url |-> "u", sha256 |-> "d5", shardIndexUrl |-> ""],
     sha256_shard |-> [p \in Prefixes |-> IF p = "aa" THEN ShaText1 ELSE <<>>],
     sha256_shard_meta |-> [p \in Prefixes |->
        IF p = "aa" THEN [sha256 |-> "d1", url |-> "u"] ELSE NoShardMeta],
     sha256_shards_index |-> <<"aa">>,
     sha256_shardindex_metadata |-> 1,
     customHashes |-> <<>>]

----------------------------------------------------------------------------
(* What the update server can answer *)

\* digests a metadata descriptor or shard-index entry can declare
\* ("" : the field is absent)
ShaDeclared == {"", "d1", "D1", "d3"}
IpDeclared == {"", "d4", "d5"}

\* sha256/metadata.json : { version, url, sha256 } or { version, shardIndexUrl }
ShaMetas ==
    [version : 1..MaxVersion, url : {"u"}, sha256 : ShaDeclared,
     shardIndexUrl : {"", "idx"}]

\* ip/metadata.json
IpMetas ==
    [version : 1..MaxVersion, url : {"u"}, sha256 : IpDeclared,
     shardIndexUrl : {""}]

\* entries of a shard index: { prefix, url, sha256 }
ShardEntries ==
    {[prefix |-> "aa", url |-> "u", sha256 |-> "d1"],
     [prefix |-> "AA", url |-> "u", sha256 |-> "D1"],
     [prefix |-> "aa", url |-> "u", sha256 |-> "d2"],
     [prefix |-> "ab", url |-> "u", sha256 |-> ""],
     [prefix |-> "", url |-> "u", sha256 |-> "d1"],
     [prefix |-> "ab", url |-> "", sha256 |-> "d3"]}

\* shard-index documents: { shards: [...], version }; isArray FALSE is a
\* document whose shards field is no array
ShardIndexes ==
    {[isArray |-> TRUE, shards |-> s, version |-> 0] :
        s \in UNION {[1..n -> ShardEntries] : n \in 0..MaxShardEntries}}
    \cup {[isArray |-> FALSE, shards |-> <<>>, version |-> 2]}

----------------------------------------------------------------------------
(* IpDB.parseCsv *)

\* IpDB.isValidIpString
isValidIpString(s) == s \in {"1.1.1.1", "2.2.2.2", "8.8.8.8", "9.9.9.9", "::1"}

\* first.toLowerCase().includes('ip')
IncludesIp(line) == \E i \in 1..Len(line) : ToLowerCase(line[i]) \in {"ip", "zip"}

\* first.includes(',')
IncludesComma(line) == Len(line) > 1

NonEmptyLine(line) == ~(Len(line) = 1 /\ line[1] = "")

RECURSIVE FilterLines(_)
FilterLines(text) ==
    IF text = <<>> THEN <<>>
    ELSE IF NonEmptyLine(Head(text)) THEN <<Head(text)>> \o FilterLines(Tail(text))
         ELSE FilterLines(Tail(text))

Cols(line) == [i \in 1..Len(line) |-> Trim(line[i])]

ColOr(cols, i) == IF i <= Len(cols) THEN cols[i] ELSE ""

\* the metadata object built for one row
RowMeta(headers, cols) ==
    IF Len(headers) > 0
    THEN [h \in Range(headers) |->
            ColOr(cols, CHOOSE i \in 1..Len(headers) :
                /\ headers[i] = h
                /\ \A j \in 1..Len(headers) : headers[j] = h => j <= i)]
    ELSE [h \in {"ip", "source"} |-> IF h = "ip" THEN cols[1] ELSE ColOr(cols, 2)]

RECURSIVE AddRows(_, _, _)
AddRows(map, headers, rows) ==
    IF rows = <<>> THEN map
    ELSE LET cols == Cols(Head(rows))
             ip == cols[1]
         IN  IF ip = "" \/ ~isValidIpString(ip)
             THEN AddRows(map, headers, Tail(rows))
             ELSE AddRows([x \in (DOMAIN map) \cup {ip} |->
                              IF x = ip THEN RowMeta(headers, cols) ELSE map[x]],
                          headers, Tail(rows))

\* IpDB.parseCsv applied to the map `map': the map afterwards
parseCsv(map, text) ==
    LET lines == FilterLines(text)
    IN  IF lines = <<>> THEN map
        ELSE IF IncludesIp(lines[1]) /\ IncludesComma(lines[1])
             THEN AddRows(map, Cols(lines[1]), Tail(lines))
             ELSE AddRows(map, <<>>, lines)

EmptyMap == [x \in {} |-> <<>>]

\* IpDB.loadFromText: clear, then parse
loadFromText(map, text) == parseCsv(EmptyMap, text)

----------------------------------------------------------------------------
(* DBUpdater *)

\* entries of the report returned by checkAndUpdateAll
NoResult == [kind |-> "none", updated |-> FALSE, mode |-> "",
             details |-> [updated |-> FALSE, count |-> 0]]
ErrorResult == [kind |-> "error", updated |-> FALSE, mode |-> "",
                details |-> [updated |-> FALSE, count |-> 0]]
UpdatedResult(u) == [kind |-> "ok", updated |-> u, mode |-> "",
                     details |-> [updated |-> FALSE, count |-> 0]]
ShardsResult(d) == [kind |-> "ok", updated |-> TRUE, mode |-> "shards", details |-> d]

NoDownload == [text |-> <<>>, sha256 |-> ""]
NoIndex == [isArray |-> FALSE, shards |-> <<>>, version |-> 0]

UpdIdle ==
    [pc |-> "idle", meta |-> NoMeta, dl |-> NoDownload,
     results |-> [sha256 |-> NoResult, ip |-> NoResult],
     shardIndex |-> NoIndex, i |-> 0, prefixes |-> <<>>, mismatched |-> {}]

\* the digest of the downloaded text differs from the declared digest
\* (hex digests are compared without regard to case)
DigestDiffers(declared, text) ==
    declared # "" /\ ToLowerCase(declared) # sha256Hex(text)

\* history of a run: the downloads (<<"sha256", "">>, <<"ip", "">>,
\* <<"shard", prefix>>) whose digest differed from the declared one
Noted(u, key, declared, text) ==
    IF DigestDiffers(declared, text)
    THEN [u EXCEPT !.mismatched = @ \cup {key}]
    ELSE u

\* a downloadAndVerify that never throws on the digest
ChecksumMismatchNever(expectedSha256, hex) == FALSE

\* downloadAndVerify, line 38: TRUE when the download is thrown away
ChecksumMismatch(expectedSha256, hex) ==
    expectedSha256 # "" /\ hex # ToLowerCase(expectedSha256)

\* checkAndUpdateAll, lines 111 and 131: the descriptor differs from the stored one
MetaDiffers(meta, old) == meta.version # old.version \/ meta.sha256 # old.sha256

\* an updater that skips every shard it has downloaded before
ShardRecorded(entry, oldMeta) == oldMeta.sha256 # ""

\* downloadAndCacheShards, line 67: the shard is skipped
ShardUnchanged(entry, oldMeta) ==
    /\ entry.sha256 # ""
    /\ oldMeta.sha256 # ""
    /\ ToLowerCase(entry.sha256) = oldMeta.sha256

\* downloadAndCacheShards, lines 58-59: the entry is used
EntryValid(entry) == ToLowerCase(entry.prefix) # "" /\ entry.url # ""

\* index of the first usable entry at or after i (Len + 1: none)
RECURSIVE SkipInvalid(_, _)
SkipInvalid(shards, i) ==
    IF i > Len(shards) THEN i
    ELSE IF EntryValid(shards[i]) THEN i
         ELSE SkipInvalid(shards, i + 1)

\* the for loop of downloadAndCacheShards goes on from entry i: either it
\* reaches the storage read of the next usable entry (and has pushed its
\* prefix) or it leaves the loop for the write of sha256_shards_index
LoopFrom(u, i) ==
    LET j == SkipInvalid(u.shardIndex.shards, i)
    IN  IF j > Len(u.shardIndex.shards)
        THEN [u EXCEPT !.pc = "sh_idx_set", !.i = j]
        ELSE [u EXCEPT !.pc = "sh_get", !.i = j,
                       !.prefixes = Append(@, ToLowerCase(u.shardIndex.shards[j].prefix))]

\* the SHA256 block of checkAndUpdateAll is left with results.sha256 = r
\* (its block-scoped locals are gone)
ShaEnd(u, r) ==
    [UpdIdle EXCEPT !.pc = "ip_meta", !.results = [u.results EXCEPT !.sha256 = r],
                    !.mismatched = u.mismatched]

\* checkAndUpdateAll returns results, with results.ip = r
IpEnd(u, r) ==
    [UpdIdle EXCEPT !.pc = "done", !.results = [u.results EXCEPT !.ip = r],
                    !.mismatched = u.mismatched]

CurPrefix == ToLowerCase(upd.shardIndex.shards[upd.i].prefix)
CurEntry == upd.shardIndex.shards[upd.i]

\* checkAndUpdateAll is called
CheckAndUpdateAll ==
    /\ upd.pc = "idle"
    /\ upd' = [UpdIdle EXCEPT !.pc = "sha_meta"]
    /\ UNCHANGED <<storage, localHashes, hashVars, ipVars, scoreVars, bgVars>>

\* fetchMetadata('sha256') settles
FetchShaMetadata ==
    /\ upd.pc = "sha_meta"
    /\ \/ upd' = ShaEnd(upd, ErrorResult)
       \/ \E m \in ShaMetas : upd' = [upd EXCEPT !.pc = "sha_get", !.meta = m]
    /\ UNCHANGED <<storage, localHashes, hashVars, ipVars, scoreVars, bgVars>>

\* storage.local.get(['sha256_remote_metadata']) settles; the mode is chosen
ShaGetOld ==
    /\ upd.pc = "sha_get"
    /\ upd' = IF upd.meta.shardIndexUrl # ""
                 THEN [upd EXCEPT !.pc = "shard_index"]
              ELSE IF MetaDiffers(upd.meta, storage.sha256_remote_metadata)
                 THEN [upd EXCEPT !.pc = "sha_dl"]
              ELSE ShaEnd(upd, UpdatedResult(FALSE))
    /\ UNCHANGED <<storage, localHashes, hashVars, ipVars, scoreVars, bgVars>>

\* downloadAndVerify(meta.url, meta.sha256) settles
ShaDownload ==
    /\ upd.pc = "sha_dl"
    /\ \/ upd' = ShaEnd(upd, ErrorResult)
       \/ \E text \in ShaPayloads :
            LET u == Noted(upd, <<"sha256", "">>, upd.meta.sha256, text)
            IN  upd' = IF ChecksumMismatch(upd.meta.sha256, sha256Hex(text))
                       THEN ShaEnd(u, ErrorResult)
                       ELSE [u EXCEPT !.pc = "sha_set",
                                      !.dl = [text |-> text, sha256 |-> sha256Hex(text)]]
    /\ UNCHANGED <<storage, localHashes, hashVars, ipVars, scoreVars, bgVars>>

\* storage.local.set({ sha256_remote_text, sha256_remote_metadata }) settles;
\* HashDB.loadCachedRemote is called
ShaStore ==
    /\ upd.pc = "sha_set"
    /\ storage' = [storage EXCEPT !.sha256_remote_text = upd.dl.text,
                                  !.sha256_remote_metadata = upd.meta]
    /\ upd' = [upd EXCEPT !.pc = "sha_reload", !.results.sha256 = UpdatedResult(TRUE)]
    /\ UNCHANGED <<localHashes, hashVars, ipVars, scoreVars, bgVars>>

\* HashDB.loadCachedRemote: the parsed lines are added to localHashes
loadCachedRemote(hashes, text) ==
    IF text = <<>> THEN hashes ELSE hashes \cup ParseHashes(text)

\* the storage read of HashDB.loadCachedRemote settles
ShaReload ==
    /\ upd.pc = "sha_reload"
    /\ localHashes' = loadCachedRemote(localHashes, storage.sha256_remote_text)
    /\ upd' = ShaEnd(upd, upd.results.sha256)
    /\ UNCHANGED <<storage, hashVars, ipVars, scoreVars, bgVars>>

\* downloadShardIndex settles; downloadAndCacheShards starts
ShardIndexFetch ==
    /\ upd.pc = "shard_index"
    /\ \/ upd' = ShaEnd(upd, ErrorResult)
       \/ \E idx \in ShardIndexes :
            upd' = IF ~idx.isArray
                   THEN [upd EXCEPT !.pc = "sh_meta_set", !.shardIndex = idx]
                   ELSE LoopFrom([upd EXCEPT !.shardIndex = idx], 1)
    /\ UNCHANGED <<storage, localHashes, hashVars, ipVars, scoreVars, bgVars>>

\* storage.local.get([metaKey]) settles for the current entry
ShardGetOld ==
    /\ upd.pc = "sh_get"
    /\ upd' = IF ShardUnchanged(CurEntry, storage.sha256_shard_meta[CurPrefix])
              THEN LoopFrom(upd, upd.i + 1)
              ELSE [upd EXCEPT !.pc = "sh_dl"]
    /\ UNCHANGED <<storage, localHashes, hashVars, ipVars, scoreVars, bgVars>>

\* downloadAndVerify(entry.url, entry.sha256) settles; a failure is caught
ShardDownload ==
    /\ upd.pc = "sh_dl"
    /\ \/ upd' = LoopFrom(upd, upd.i + 1)
       \/ \E text \in ShaPayloads :
            LET u == Noted(upd, <<"shard", CurPrefix>>, CurEntry.sha256, text)
            IN  upd' = IF ChecksumMismatch(CurEntry.sha256, sha256Hex(text))
                       THEN LoopFrom(u, upd.i + 1)
                       ELSE [u EXCEPT !.pc = "sh_set",
                                      !.dl = [text |-> text, sha256 |-> sha256Hex(text)]]
    /\ UNCHANGED <<storage, localHashes, hashVars, ipVars, scoreVars, bgVars>>

\* storage.local.set of the shard text and its metadata settles
ShardStore ==
    /\ upd.pc = "sh_set"
    /\ storage' = [storage EXCEPT
            !.sha256_shard[CurPrefix] = upd.dl.text,
            !.sha256_shard_meta[CurPrefix] = [sha256 |-> upd.dl.sha256, url |-> CurEntry.url]]
    /\ upd' = LoopFrom(upd, upd.i + 1)
    /\ UNCHANGED <<localHashes, hashVars, ipVars, scoreVars, bgVars>>

\* storage.local.set({ sha256_shards_index: prefixes }) is written
ShardIndexStore ==
    /\ upd.pc = "sh_idx_set"
    /\ storage' = [storage EXCEPT !.sha256_shards_index = upd.prefixes]
    /\ upd' = [upd EXCEPT !.pc = "sh_clear"]
    /\ UNCHANGED <<localHashes, hashVars, ipVars, scoreVars, bgVars>>

\* the write has settled: HashDB.shardCache = {}; downloadAndCacheShards returns
ShardCacheClear ==
    /\ upd.pc = "sh_clear"
    /\ shardCache' = [p \in {} |-> {}]
    /\ upd' = [upd EXCEPT !.pc = "sh_meta_set"]
    /\ UNCHANGED <<storage, localHashes, shardPromises, customHashes, loads, callers,
                   pkgPos, ipVars, scoreVars, bgVars>>

\* the value downloadAndCacheShards returned
ShardResult(u) ==
    IF u.shardIndex.isArray
    THEN [updated |-> TRUE, count |-> Len(u.prefixes)]
    ELSE [updated |-> FALSE, count |-> 0]

\* storage.local.set({ sha256_remote_metadata, sha256_shardindex_metadata }) settles
ShardMetaStore ==
    /\ upd.pc = "sh_meta_set"
    /\ storage' = [storage EXCEPT
            !.sha256_remote_metadata = upd.meta,
            !.sha256_shardindex_metadata =
                IF upd.shardIndex.version # 0 THEN upd.shardIndex.version
                ELSE upd.meta.version]
    /\ upd' = ShaEnd(upd, ShardsResult(ShardResult(upd)))
    /\ UNCHANGED <<localHashes, hashVars, ipVars, scoreVars, bgVars>>

\* fetchMetadata('ip') settles
FetchIpMetadata ==
    /\ upd.pc = "ip_meta"
    /\ \/ upd' = IpEnd(upd, ErrorResult)
       \/ \E m \in IpMetas : upd' = [upd EXCEPT !.pc = "ip_get", !.meta = m]
    /\ UNCHANGED <<storage, localHashes, hashVars, ipVars, scoreVars, bgVars>>

\* storage.local.get(['ip_remote_metadata']) settles
IpGetOld ==
    /\ upd.pc = "ip_get"
    /\ upd' = IF MetaDiffers(upd.meta, storage.ip_remote_metadata)
              THEN [upd EXCEPT !.pc = "ip_dl"]
              ELSE IpEnd(upd, UpdatedResult(FALSE))
    /\ UNCHANGED <<storage, localHashes, hashVars, ipVars, scoreVars, bgVars>>

\* downloadAndVerify(meta.url, meta.sha256) settles
IpDownload ==
    /\ upd.pc = "ip_dl"
    /\ \/ upd' = IpEnd(upd, ErrorResult)
       \/ \E text \in IpPayloads :
            LET u == Noted(upd, <<"ip", "">>, upd.meta.sha256, text)
            IN  upd' = IF ChecksumMismatch(upd.meta.sha256, sha256Hex(text))
                       THEN IpEnd(u, ErrorResult)
                       ELSE [u EXCEPT !.pc = "ip_set",
                                      !.dl = [text |-> text, sha256 |-> sha256Hex(text)]]
    /\ UNCHANGED <<storage, localHashes, hashVars, ipVars, scoreVars, bgVars>>

\* storage.local.set({ ip_remote_text, ip_remote_metadata }) is written
IpStore ==
    /\ upd.pc = "ip_set"
    /\ storage' = [storage EXCEPT !.ip_remote_text = upd.dl.text,
                                  !.ip_remote_metadata = upd.meta]
    /\ upd' = [upd EXCEPT !.pc = "ip_apply"]
    /\ UNCHANGED <<localHashes, hashVars, ipVars, scoreVars, bgVars>>

\* the write has settled: IpDB.loadFromText(downloaded.text); results returned
IpApply ==
    /\ upd.pc = "ip_apply"
    /\ ipMap' = loadFromText(ipMap, upd.dl.text)
    /\ ipLoaded' = TRUE
    /\ upd' = IpEnd(upd, UpdatedResult(TRUE))
    /\ UNCHANGED <<storage, localHashes, hashVars, ipLoading, ipLoaders, ipCallers,
                   scoreVars, bgVars>>

UpdNext ==
    \/ CheckAndUpdateAll
    \/ FetchShaMetadata
    \/ ShaGetOld
    \/ ShaDownload
    \/ ShaStore
    \/ ShaReload
    \/ ShardIndexFetch
    \/ ShardGetOld
    \/ ShardDownload
    \/ ShardStore
    \/ ShardIndexStore
    \/ ShardCacheClear
    \/ ShardMetaStore
    \/ FetchIpMetadata
    \/ IpGetOld
    \/ IpDownload
    \/ IpStore
    \/ IpApply

----------------------------------------------------------------------------
(* HashDB *)

\* the files SHA256/index.json lists, and the packaged shards SHA256/shards/<prefix>.txt
PkgShaFiles == << << <<"ab01">> >>, << <<"AA01">>, <<"zz">> >> >>
PkgShard(prefix) == IF prefix = "aa" THEN << <<"aa02">> >> ELSE <<>>

\* arguments of checkHash ("" : a falsy or non-string argument)
HashInputs == {"aa01", "AA01", " aa02 ", "ab02", " ", ""}

\* lists handed to addCustomHashes
CustomLists ==
    {<<>>,
     <<[hash |-> "aa01", description |-> "c1"]>>,
     <<[hash |-> "AA01", description |-> "c2"], [hash |-> "ab02", description |-> "c3"]>>}

NotFound == [found |-> FALSE, source |-> "none", description |-> ""]
FoundIn(source, description) ==
    [found |-> TRUE, source |-> source, description |-> description]

NoCall == [pc |-> "idle", sha256 |-> "", clean |-> "", load |-> 0, result |-> NotFound]

\* checkHash, lines 176-194: the custom entries are searched in order
RECURSIVE CheckCustom(_, _)
CheckCustom(custom, clean) ==
    IF custom = <<>> THEN NotFound
    ELSE IF Head(custom).hash = clean
         THEN FoundIn("custom", Head(custom).description)
         ELSE CheckCustom(Tail(custom), clean)

\* a checkHash without the try / catch around the shard lookup
AfterShardNoCatch(custom, clean, rejected, shard) ==
    IF rejected THEN NotFound
    ELSE IF clean \in shard
    THEN FoundIn("shard", "Matched packaged shard")
    ELSE CheckCustom(custom, clean)

\* checkHash, lines 160-194, once loadShard has settled
\* (rejected TRUE: the promise was rejected and the catch block ran)
AfterShard(custom, clean, rejected, shard) ==
    IF ~rejected /\ clean \in shard
    THEN FoundIn("shard", "Matched packaged shard")
    ELSE CheckCustom(custom, clean)

\* a loadShard that does not look for a load in progress
PromiseForNone(promises, prefix) == 0

\* loadShard, line 84: the promise in flight for the prefix (0: none)
PromiseFor(promises, prefix) ==
    IF prefix \in DOMAIN promises THEN promises[prefix] ELSE 0

\* a storage read that returns the text of an earlier write together with
\* the text of the latest one
StoredShardMixed(prefix) ==
    IF prefix \in Prefixes
    THEN PriorStorage.sha256_shard[prefix] \o storage.sha256_shard[prefix]
    ELSE <<>>

\* stored[key] for key sha256_shard_<prefix>
StoredShard(prefix) ==
    IF prefix \in Prefixes THEN storage.sha256_shard[prefix] ELSE <<>>

Put(f, k, v) == [x \in (DOMAIN f) \cup {k} |-> IF x = k THEN v ELSE f[x]]
\* a finally block that leaves the entry in place
Keep(f, k) == f

\* delete this.shardPromises[prefix]
Delete(f, k) == [x \in (DOMAIN f) \ {k} |-> f[x]]

Calls == 1..MaxCalls

\* HashDB.addCustomHashes(hashes)
AddCustomHashes ==
    /\ \E hashes \in CustomLists :
        /\ hashes # customHashes
        /\ customHashes' = hashes
    /\ UNCHANGED <<storage, localHashes, shardCache, shardPromises, loads, callers,
                   pkgPos, upd, ipVars, scoreVars, bgVars>>

\* HashDB.loadLocalHashes is called; SHA256/index.json is fetched
LoadLocalHashes ==
    /\ pkgPos = -1
    /\ pkgPos' = 0
    /\ UNCHANGED <<storage, localHashes, shardCache, shardPromises, customHashes, loads,
                   callers, upd, ipVars, scoreVars, bgVars>>

\* the fetch of the next packaged file settles (it may fail: the file is skipped)
LoadLocalFile ==
    /\ pkgPos >= 0
    /\ pkgPos < Len(PkgShaFiles)
    /\ pkgPos' = pkgPos + 1
    /\ \/ localHashes' = localHashes \cup ParseHashes(PkgShaFiles[pkgPos + 1])
       \/ localHashes' = localHashes
    /\ UNCHANGED <<storage, shardCache, shardPromises, customHashes, loads,
                   callers, upd, ipVars, scoreVars, bgVars>>

\* checkHash(sha256) is called and runs to its first await, or to its return
CheckHash ==
    \E c \in Calls, sha256 \in HashInputs :
        /\ callers[c].pc = "idle"
        /\ LET clean == Trim(ToLowerCase(sha256))
               prefix == ToLowerCase(Slice2(clean))
               inFlight == PromiseFor(shardPromises, prefix)
               id == Len(loads) + 1
           IN  IF sha256 = ""
               THEN /\ callers' = [callers EXCEPT ![c] =
                            [NoCall EXCEPT !.pc = "done", !.sha256 = sha256]]
                    /\ UNCHANGED <<loads, shardPromises>>
               ELSE IF clean \in localHashes
               THEN /\ callers' = [callers EXCEPT ![c] =
                            [NoCall EXCEPT !.pc = "done", !.sha256 = sha256, !.clean = clean,
                                !.result = FoundIn("local", "Matched local SHA256 DB")]]
                    /\ UNCHANGED <<loads, shardPromises>>
               ELSE IF prefix = ""
               THEN /\ callers' = [callers EXCEPT ![c] =
                            [NoCall EXCEPT !.pc = "done", !.sha256 = sha256, !.clean = clean,
                                !.result = AfterShard(customHashes, clean, FALSE, {})]]
                    /\ UNCHANGED <<loads, shardPromises>>
               ELSE IF inFlight # 0
               THEN /\ callers' = [callers EXCEPT ![c] =
                            [NoCall EXCEPT !.pc = "await", !.sha256 = sha256, !.clean = clean,
                                !.load = inFlight]]
                    /\ UNCHANGED <<loads, shardPromises>>
               ELSE /\ callers' = [callers EXCEPT ![c] =
                            [NoCall EXCEPT !.pc = "await", !.sha256 = sha256, !.clean = clean,
                                !.load = id]]
                    /\ loads' = Append(loads, [prefix |-> prefix, pc |-> "get", set |-> {},
                                               reads |-> 1, fetches |-> 0])
                    /\ shardPromises' = Put(shardPromises, prefix, id)
        /\ UNCHANGED <<storage, localHashes, shardCache, customHashes, pkgPos, upd,
                       ipVars, scoreVars, bgVars>>

\* a checkHash that lets the rejection of loadShard through to its caller
ResumeOrReject(cs, custom, id, rejected, shard) ==
    [c \in DOMAIN cs |->
        IF cs[c].pc = "await" /\ cs[c].load = id
        THEN [cs[c] EXCEPT !.pc = IF rejected THEN "rejected" ELSE "done",
                           !.result = IF rejected THEN NotFound
                                      ELSE AfterShard(custom, cs[c].clean, rejected, shard)]
        ELSE cs[c]]

\* the promise `id' settles: every checkHash awaiting it goes on to its return
Resume(cs, custom, id, rejected, shard) ==
    [c \in DOMAIN cs |->
        IF cs[c].pc = "await" /\ cs[c].load = id
        THEN [cs[c] EXCEPT !.pc = "done",
                           !.result = AfterShard(custom, cs[c].clean, rejected, shard)]
        ELSE cs[c]]

\* loadShard: storage.local.get([key]) settles
LoadShardGet ==
    \E id \in 1..Len(loads) :
        /\ loads[id].pc = "get"
        /\ LET prefix == loads[id].prefix
               text == StoredShard(prefix)
           IN  \/ \* the read is rejected: finally, then the promise rejects
                  /\ loads' = [loads EXCEPT ![id].pc = "rejected"]
                  /\ shardPromises' = Delete(shardPromises, prefix)
                  /\ callers' = Resume(callers, customHashes, id, TRUE, {})
                  /\ UNCHANGED shardCache
               \/ /\ text # <<>>
                  /\ loads' = [loads EXCEPT ![id].pc = "done", ![id].set = ParseHashes(text)]
                  /\ shardCache' = Put(shardCache, prefix, ParseHashes(text))
                  /\ shardPromises' = Delete(shardPromises, prefix)
                  /\ callers' = Resume(callers, customHashes, id, FALSE, ParseHashes(text))
               \/ /\ text = <<>>
                  /\ loads' = [loads EXCEPT ![id].pc = "fetch", ![id].fetches = 1]
                  /\ UNCHANGED <<shardCache, shardPromises, callers>>
        /\ UNCHANGED <<storage, localHashes, customHashes, pkgPos, upd, ipVars, scoreVars, bgVars>>

\* loadShard: the fetch of the packaged shard settles
LoadShardFetch ==
    \E id \in 1..Len(loads) :
        /\ loads[id].pc = "fetch"
        /\ LET prefix == loads[id].prefix
           IN  \E set \in {{}} \cup
                    (IF PkgShard(prefix) # <<>> THEN {ParseHashes(PkgShard(prefix))} ELSE {}) :
                  /\ loads' = [loads EXCEPT ![id].pc = "done", ![id].set = set]
                  /\ shardCache' = Put(shardCache, prefix, set)
                  /\ shardPromises' = Delete(shardPromises, prefix)
                  /\ callers' = Resume(callers, customHashes, id, FALSE, set)
        /\ UNCHANGED <<storage, localHashes, customHashes, pkgPos, upd, ipVars, scoreVars, bgVars>>

HashNext ==
    \/ AddCustomHashes
    \/ LoadLocalHashes
    \/ LoadLocalFile
    \/ CheckHash
    \/ LoadShardGet
    \/ LoadShardFetch

----------------------------------------------------------------------------
(* TempicoAPI (part_004): the remote lookup of a single hash *)

\* arguments of TempicoAPI.checkHash: a digest, a text that is no hex string,
\* and a falsy argument
TempicoInputs == {"aa01", "zz", ""}

\* the bodies the API can answer with: null stands for a body that is valid
\* JSON but no object, items for the elements of payload
ApiItem(isNull, infected, severity) ==
    [isNull |-> isNull, infected |-> infected, severity |-> severity]

ApiData(isNull, success, payload) ==
    [isNull |-> isNull, success |-> success, payload |-> payload]

ApiBodies ==
    {ApiData(TRUE, FALSE, <<>>),
     ApiData(FALSE, FALSE, <<>>),
     ApiData(FALSE, TRUE, <<>>),
     ApiData(FALSE, TRUE, <<ApiItem(TRUE, FALSE, 0)>>),
     ApiData(FALSE, TRUE, <<ApiItem(FALSE, TRUE, 3)>>),
     ApiData(FALSE, TRUE, <<ApiItem(FALSE, TRUE, 10)>>)}

\* how the request ends: fetch rejects, the status is not OK, response.json()
\* rejects, or a body arrives
ApiOutcomes == {"network", "http", "json", "body"}

\* config.severityThreshold
severityThreshold == 5

TempicoResult(found, message, error) ==
    [found |-> found, source |-> "tempico", message |-> message, error |-> error]

\* parseResponse throws a TypeError on this body
ParseThrows(data) ==
    data.isNull \/ (data.success /\ data.payload # <<>> /\ data.payload[1].isNull)

\* parseResponse(data, hash, hashType), for the bodies it does not throw on
parseResponse(data) ==
    IF ~data.success THEN TempicoResult(FALSE, "API request failed", "")
    ELSE IF data.payload = <<>>
    THEN TempicoResult(FALSE, "Hash not found in database", "")
    ELSE LET item == data.payload[1]
         IN  TempicoResult(item.infected /\ item.severity >= severityThreshold, "", "")

NoTempico ==
    [pc |-> "idle", hash |-> "", outcome |-> "", data |-> ApiData(TRUE, FALSE, <<>>),
     result |-> TempicoResult(FALSE, "", "")]

\* TempicoAPI.checkHash(hash) is called and runs to its fetch, or to its return
TempicoCheckHash ==
    /\ tempico.pc = "idle"
    /\ \E hash \in TempicoInputs :
          tempico' =
              IF hash = ""
              THEN [tempico EXCEPT !.pc = "done", !.hash = hash,
                                   !.result = TempicoResult(FALSE, "Invalid hash", "")]
              ELSE IF hash = "zz"
              THEN [tempico EXCEPT !.pc = "done", !.hash = hash,
                                   !.result = TempicoResult(FALSE, "Invalid hash format", "")]
              ELSE [tempico EXCEPT !.pc = "fetch", !.hash = hash]
    /\ UNCHANGED <<storage, localHashes, upd, hashVars, ipVars, scoreVars, job,
                   checkedScripts, mlExportData, navVars, extraction>>

\* the request settles: the body is parsed, and whatever is thrown on the way
\* is turned into { found: false, error, source } by the catch block
TempicoSettled ==
    /\ tempico.pc = "fetch"
    /\ \E outcome \in ApiOutcomes, data \in ApiBodies :
          /\ outcome # "body" => data = ApiData(TRUE, FALSE, <<>>)
          /\ tempico' =
                [tempico EXCEPT
                    !.pc = "done", !.outcome = outcome, !.data = data,
                    !.result = IF outcome # "body" THEN TempicoResult(FALSE, "", outcome)
                               ELSE IF ParseThrows(data)
                               THEN TempicoResult(FALSE, "", "TypeError")
                               ELSE parseResponse(data)]
    /\ UNCHANGED <<storage, localHashes, upd, hashVars, ipVars, scoreVars, job,
                   checkedScripts, mlExportData, navVars, extraction>>

----------------------------------------------------------------------------
(* IpDB *)

\* the files IP/index.json lists
PkgIpFiles == <<PkgIp1, PkgIp2>>

\* arguments of isIpBlacklisted
IpInputs == {"1.1.1.1", "9.9.9.9"}

IpCalls == 1..MaxIpCalls

NoIpCall == [pc |-> "idle", ip |-> "", found |-> FALSE]

\* a loadAll call waiting for its storage read
NewLoader == [pc |-> "get", k |-> 0]

\* isIpBlacklisted, lines 113-120: the answer from the map
IpAnswer(map, ip) == ip \in DOMAIN map

\* the loadAll promise `id' settles: every isIpBlacklisted awaiting it answers
IpResume(cs, id, map) ==
    [c \in DOMAIN cs |->
        IF cs[c].pc = "await"
        THEN [cs[c] EXCEPT !.pc = "done", !.found = IpAnswer(map, cs[c].ip)]
        ELSE cs[c]]

\* the callers of loadAll call `id' that are released when it returns
Release(id, map) == IF ipLoading = id THEN IpResume(ipCallers, id, map) ELSE ipCallers

\* loadAll: storage.local.get(['ip_remote_text']) settles
IpLoadGet ==
    \E id \in 1..Len(ipLoaders) :
        /\ ipLoaders[id].pc = "get"
        /\ \/ /\ storage.ip_remote_text # <<>>
              /\ ipMap' = parseCsv(ipMap, storage.ip_remote_text)
              /\ ipLoaded' = TRUE
              /\ ipLoaders' = [ipLoaders EXCEPT ![id].pc = "done"]
              /\ ipCallers' = Release(id, ipMap')
           \/ \* no cached text, or the read was rejected: fetch IP/index.json
              /\ ipLoaders' = [ipLoaders EXCEPT ![id].pc = "index"]
              /\ UNCHANGED <<ipMap, ipLoaded, ipCallers>>
        /\ UNCHANGED <<storage, localHashes, hashVars, upd, ipLoading, scoreVars, bgVars>>

\* loadAll: the fetch of IP/index.json settles
IpLoadIndex ==
    \E id \in 1..Len(ipLoaders) :
        /\ ipLoaders[id].pc = "index"
        /\ \/ \* the fetch throws or answers not ok
              /\ ipLoaded' = TRUE
              /\ ipLoaders' = [ipLoaders EXCEPT ![id].pc = "done"]
              /\ ipCallers' = Release(id, ipMap)
           \/ \* the document is no array: return, loaded stays as it is
              /\ ipLoaders' = [ipLoaders EXCEPT ![id].pc = "done"]
              /\ ipCallers' = Release(id, ipMap)
              /\ UNCHANGED ipLoaded
           \/ /\ ipLoaders' = [ipLoaders EXCEPT ![id].pc = "file", ![id].k = 1]
              /\ UNCHANGED <<ipLoaded, ipCallers>>
        /\ UNCHANGED <<storage, localHashes, hashVars, upd, ipMap, ipLoading, scoreVars, bgVars>>

\* loadAll: the fetch of the k-th listed file settles (a failed one is skipped)
IpLoadFile ==
    \E id \in 1..Len(ipLoaders) :
        /\ ipLoaders[id].pc = "file"
        /\ LET k == ipLoaders[id].k
               last == k = Len(PkgIpFiles)
           IN  /\ \/ ipMap' = parseCsv(ipMap, PkgIpFiles[k])
                  \/ ipMap' = ipMap
               /\ ipLoaders' = [ipLoaders EXCEPT ![id] =
                        IF last THEN [@ EXCEPT !.pc = "done"] ELSE [@ EXCEPT !.k = k + 1]]
               /\ ipLoaded' = IF last THEN TRUE ELSE ipLoaded
               /\ ipCallers' = IF last THEN Release(id, ipMap') ELSE ipCallers
        /\ UNCHANGED <<storage, localHashes, hashVars, upd, ipLoading, scoreVars, bgVars>>

\* isIpBlacklisted(ip) is called and runs to its await, or to its return
IsIpBlacklisted ==
    \E c \in IpCalls, ip \in IpInputs :
        /\ ipCallers[c].pc = "idle"
        /\ IF ipLoaded
           THEN /\ ipCallers' = [ipCallers EXCEPT ![c] =
                        [pc |-> "done", ip |-> ip, found |-> IpAnswer(ipMap, ip)]]
                /\ UNCHANGED <<ipLoading, ipLoaders>>
           ELSE IF ipLoading = 0
           THEN /\ ipLoaders' = Append(ipLoaders, NewLoader)
                /\ ipLoading' = Len(ipLoaders) + 1
                /\ ipCallers' = [ipCallers EXCEPT ![c] =
                        [pc |-> "await", ip |-> ip, found |-> FALSE]]
           ELSE IF ipLoaders[ipLoading].pc = "done"
           THEN /\ ipCallers' = [ipCallers EXCEPT ![c] =
                        [pc |-> "done", ip |-> ip, found |-> IpAnswer(ipMap, ip)]]
                /\ UNCHANGED <<ipLoading, ipLoaders>>
           ELSE /\ ipCallers' = [ipCallers EXCEPT ![c] =
                        [pc |-> "await", ip |-> ip, found |-> FALSE]]
                /\ UNCHANGED <<ipLoading, ipLoaders>>
        /\ UNCHANGED <<storage, localHashes, hashVars, upd, ipMap, ipLoaded, scoreVars, bgVars>>

IpNext ==
    \/ IpLoadGet
    \/ IpLoadIndex
    \/ IpLoadFile
    \/ IsIpBlacklisted

----------------------------------------------------------------------------
(* Scorer.  Scores are kept in hundredths of a point, so that the 0.3 trust     *)
(* multiplier and the 0.20 obfuscation scale are exact.                         *)

Min(a, b) == IF a < b THEN a ELSE b

\* Math.round of a non-negative number of hundredths
MathRound(x) == (x + 50) \div 100

\* Scorer.trustedDomains, as label sequences
trustedDomains ==
    {<<"cdnjs", "cloudflare", "com">>, <<"unpkg", "com">>, <<"jsdelivr", "net">>,
     <<"cdn", "jsdelivr", "net">>, <<"ajax", "googleapis", "com">>,
     <<"code", "jquery", "com">>, <<"stackpath", "bootstrapcdn", "com">>,
     <<"maxcdn", "bootstrapcdn", "com">>, <<"use", "fontawesome", "com">>,
     <<"fonts", "googleapis", "com">>, <<"cdn", "bootcss", "com">>,
     <<"cdn", "staticfile", "org">>, <<"lib", "baomitu", "com">>,
     <<"polyfill", "io">>, <<"cdnjs", "com">>, <<"unpkg", "org">>}

\* hostname === trusted || hostname.endsWith('.' + trusted)
EndsWithDomain(host, trusted) ==
    /\ Len(host) >= Len(trusted)
    /\ SubSeq(host, Len(host) - Len(trusted) + 1, Len(host)) = trusted

\* path.includes('/lib/') and the like: a directory of that name
IncludesDir(path, names) ==
    \E i \in 1..(Len(path) - 1) : ToLowerCase(path[i]) \in names

\* Scorer.isTrustedSource; url.valid FALSE: new URL(url) throws
isTrustedSource(url) ==
    IF ~url.valid THEN FALSE
    ELSE \/ \E trusted \in trustedDomains : EndsWithDomain(url.host, trusted)
         \/ IncludesDir(url.path, {"lib", "vendor", "node_modules", "dist"})

\* Scorer.isKnownDomain
isKnownDomain(url) ==
    IF ~url.valid THEN FALSE
    ELSE LET n == Len(url.host)
             hasKnownTLD ==
                n >= 2 /\ url.host[n] \in {"com", "org", "net", "edu", "gov", "io", "co"}
             mainDomain == IF n >= 2 THEN url.host[n - 1] ELSE ""
         IN  hasKnownTLD /\ Len(mainDomain) <= 20

\* a scorer whose dangerous-call score wraps around instead of stopping at 30
scoreDangerousFunctionsWrap(dangerous) ==
    (100 * ( dangerous.eval * 10 + dangerous.Function * 10
           + (dangerous.setTimeout_string + dangerous.setInterval_string) * 8
           + dangerous.document_write * 3 + (dangerous.atob + dangerous.btoa) * 3
           + (dangerous.unescape + dangerous.decodeURIComponent) * 2
           + (dangerous.innerHTML + dangerous.outerHTML) * 2)) % 3100

\* Scorer.scoreDangerousFunctions
scoreDangerousFunctions(dangerous) ==
    Min(100 * ( Min(dangerous.eval * 10, 30)
              + Min(dangerous.Function * 10, 30)
              + Min((dangerous.setTimeout_string + dangerous.setInterval_string) * 8, 20)
              + Min(dangerous.document_write * 3, 10)
              + Min((dangerous.atob + dangerous.btoa) * 3, 15)
              + Min((dangerous.unescape + dangerous.decodeURIComponent) * 2, 10)
              + Min((dangerous.innerHTML + dangerous.outerHTML) * 2, 10)), 3000)

\* a scorer that takes the obfuscation score of the extractor as it is
scoreObfuscationUnscaled(obfuscation) == 100 * obfuscation.score

\* Scorer.scoreObfuscation
scoreObfuscation(obfuscation) ==
    Min(obfuscation.score * 20
        + (IF obfuscation.hexStrings > 50 THEN 800 ELSE 0)
        + (IF obfuscation.unicodeEscapes > 50 THEN 800 ELSE 0)
        + (IF obfuscation.charCodeUsage > 10 THEN 800 ELSE 0), 2000)

\* Scorer.scoreURLs; externalPercentage in hundredths of a percent
scoreURLs(urlAnalysis) ==
    Min(100 * ( (IF urlAnalysis.externalPercentage > 8000 THEN 10
                 ELSE IF urlAnalysis.externalPercentage > 5000 THEN 6
                 ELSE IF urlAnalysis.externalPercentage > 3000 THEN 3 ELSE 0)
              + (IF urlAnalysis.totalUrls > 20 THEN 3 ELSE 0)
              + (IF urlAnalysis.totalUrls > 50 THEN 6 ELSE 0)), 1000)

\* Scorer.scoreEntropy; entropies in thousandths of a bit
scoreEntropy(stringAnalysis) ==
    Min(100 * ( (IF stringAnalysis.avgEntropy > 4500 THEN 10
                 ELSE IF stringAnalysis.avgEntropy > 4000 THEN 6
                 ELSE IF stringAnalysis.avgEntropy > 3500 THEN 3 ELSE 0)
              + (IF stringAnalysis.maxEntropy > 5000 THEN 6 ELSE 0)
              + (IF stringAnalysis.highEntropyStrings > 10 THEN 6
                 ELSE IF stringAnalysis.highEntropyStrings > 5 THEN 3 ELSE 0)), 1500)

\* Scorer.scoreSuspiciousPatterns
scoreSuspiciousPatterns(patterns) ==
    Min(100 * ( (IF patterns.dynamicPropertyAccess > 10 THEN 12
                 ELSE IF patterns.dynamicPropertyAccess > 5 THEN 8
                 ELSE IF patterns.dynamicPropertyAccess > 0 THEN 4 ELSE 0)
              + Min(patterns.importScripts * 8, 16)
              + (IF patterns.webSocket > 0 THEN 8 ELSE 0)
              + (IF patterns.xhr + patterns.fetch > 10 THEN 8
                 ELSE IF patterns.xhr + patterns.fetch > 5 THEN 4 ELSE 0)
              + (IF patterns.cookie > 3 THEN 8
                 ELSE IF patterns.cookie > 0 THEN 4 ELSE 0)), 2000)

\* Scorer.scoreComplexity
scoreComplexity(complexity) ==
    Min(100 * ( (IF complexity.cyclomaticComplexity > 100 THEN 10
                 ELSE IF complexity.cyclomaticComplexity > 50 THEN 5 ELSE 0)
              + (IF complexity.maxNestingDepth > 10 THEN 5 ELSE 0)), 1000)

\* domain.includes(suspicious) for some entry of Scorer.suspiciousDomains
IncludesSuspicious(domain) ==
    domain \in {"bit.ly", "evil.tk", "pastebin.com", "microsoft.com"}

\* /^\d{1,3}\.\d{1,3}\.\d{1,3}\.\d{1,3}$/.test(domain)
IsDottedQuad(domain) == domain \in {"1.2.3.4"}

RECURSIVE SumDomains(_)
SumDomains(domains) ==
    IF domains = <<>> THEN 0
    ELSE (IF IncludesSuspicious(Head(domains)) THEN 12 ELSE 0)
         + (IF IsDottedQuad(Head(domains)) THEN 8 ELSE 0)
         + (IF Len(Head(domains)) > 40 THEN 4 ELSE 0)
         + SumDomains(Tail(domains))

\* Scorer.scoreDomains
scoreDomains(urlAnalysis) == Min(100 * SumDomains(urlAnalysis.domains), 2000)

\* Scorer.ipWeight
ipWeight == 40

\* a scorer in which a hash match is worth a block by itself
HashScoreBlock(hashMatch) == IF ~hashMatch.isNull /\ hashMatch.found THEN 7000 ELSE 0

\* calculateScore, lines 62-66: the points of a hash match
HashScore(hashMatch) == IF ~hashMatch.isNull /\ hashMatch.found THEN 4000 ELSE 0

\* a scorer without the trust multiplier
TrustNone(isTrusted, x) == x

\* calculateScore, line 59: a heuristic score times the trust multiplier
Trust(isTrusted, x) == IF isTrusted THEN (x * 3) \div 10 ELSE x

\* a scorer without the cap of line 122
CapNone(score) == score

\* calculateScore, line 122: Math.min(score, 100)
Cap(score) == Min(score, 10000)

\* calculateScore, lines 125-134
Action(score) ==
    IF score >= 7000 THEN "block" ELSE IF score >= 4000 THEN "suspect" ELSE "allow"

RiskLevel(score) ==
    IF score >= 7000 THEN "high" ELSE IF score >= 4000 THEN "medium" ELSE "low"

Reason(tag, n, s) == [tag |-> tag, n |-> n, s |-> s]

RECURSIVE IpReasons(_)
IpReasons(ips) ==
    IF ips = <<>> THEN <<>>
    ELSE <<Reason("ip", 0, Head(ips))>> \o IpReasons(Tail(ips))

If(cond, reason) == IF cond THEN <<reason>> ELSE <<>>

\* features.networkMatches && features.networkMatches.blacklistedIps, [] when
\* the vector has no networkMatches
BlacklistedIps(features) ==
    IF "networkMatches" \in DOMAIN features
    THEN features.networkMatches.blacklistedIps ELSE <<>>

\* a scorer that reports the suspicious domains before everything else
generateReasonsDomainsFirst(features, breakdown, hashMatch) ==
    If(breakdown.domains > 8, Reason("domains", 0, ""))
    \o If(breakdown.hashMatch > 0, Reason("hash", 0, "Tempico"))
    \o If(breakdown.trustedSource, Reason("trusted", 0, ""))

\* Scorer.generateReasons
generateReasons(features, breakdown, hashMatch) ==
    LET d == features.dangerousFunctions
        o == features.obfuscation
        u == features.urlAnalysis
        st == features.stringAnalysis
        p == features.suspiciousPatterns
    IN  If(breakdown.hashMatch > 0,
           Reason("hash", 0, IF hashMatch.source # "" THEN hashMatch.source ELSE "Tempico"))
        \o IpReasons(BlacklistedIps(features))
        \o If(breakdown.trustedSource, Reason("trusted", 0, ""))
        \o If(breakdown.unknownDomain > 0, Reason("unknownDomain", 0, ""))
        \o (IF breakdown.dangerousFunctions > 15
            THEN If(d.eval > 0, Reason("eval", d.eval, ""))
                 \o If(d.Function > 0, Reason("Function", d.Function, ""))
                 \o If(d.setTimeout_string > 0, Reason("setTimeout", 0, ""))
            ELSE <<>>)
        \o (IF breakdown.obfuscation > 10
            THEN If(o.isObfuscated, Reason("obfuscated", 0, ""))
                 \o If(o.hexStrings > 20, Reason("hexStrings", o.hexStrings, ""))
                 \o If(o.base64Strings > 5, Reason("base64Strings", o.base64Strings, ""))
            ELSE <<>>)
        \o (IF breakdown.urls > 6
            THEN If(u.externalPercentage > 5000, Reason("external", u.externalPercentage, ""))
            ELSE <<>>)
        \o (IF breakdown.entropy > 8
            THEN If(st.highEntropyStrings > 5, Reason("entropy", st.highEntropyStrings, ""))
            ELSE <<>>)
        \o (IF breakdown.patterns > 8
            THEN If(p.dynamicPropertyAccess > 5, Reason("dynamicPropertyAccess", 0, ""))
                 \o If(p.webSocket > 0, Reason("webSocket", 0, ""))
                 \o If(p.cookie > 0, Reason("cookie", 0, ""))
            ELSE <<>>)
        \o If(breakdown.domains > 8, Reason("domains", 0, ""))

\* Scorer.calculateScore(features, hashMatch)
calculateScore(features, hashMatch) ==
    LET isTrusted == isTrustedSource(features.url)
        hashScore == HashScore(hashMatch)
        dangerScore == Trust(isTrusted, scoreDangerousFunctions(features.dangerousFunctions))
        obfuscationScore == Trust(isTrusted, scoreObfuscation(features.obfuscation))
        urlScore == Trust(isTrusted, scoreURLs(features.urlAnalysis))
        entropyScore == Trust(isTrusted, scoreEntropy(features.stringAnalysis))
        patternScore == Trust(isTrusted, scoreSuspiciousPatterns(features.suspiciousPatterns))
        complexityScore == Trust(isTrusted, scoreComplexity(features.complexity))
        domainScore == Trust(isTrusted, scoreDomains(features.urlAnalysis))
        unknownDomainScore ==
            IF ~isTrusted /\ ~isKnownDomain(features.url) THEN 1000 ELSE 0
        ipScore ==
            IF Len(BlacklistedIps(features)) > 0 THEN 100 * ipWeight ELSE 0
        score == Cap(hashScore + dangerScore + obfuscationScore + urlScore + entropyScore
                     + patternScore + complexityScore + domainScore + unknownDomainScore
                     + ipScore)
        breakdown ==
            [trustedSource |-> isTrusted,
             hashMatch |-> hashScore \div 100,
             dangerousFunctions |-> MathRound(dangerScore),
             obfuscation |-> MathRound(obfuscationScore),
             urls |-> MathRound(urlScore),
             entropy |-> MathRound(entropyScore),
             patterns |-> MathRound(patternScore),
             complexity |-> MathRound(complexityScore),
             domains |-> MathRound(domainScore),
             unknownDomain |-> unknownDomainScore \div 100,
             ipMatches |-> ipScore \div 100]
    IN  [done |-> TRUE,
         score |-> MathRound(score),
         riskLevel |-> RiskLevel(score),
         action |-> Action(score),
         breakdown |-> breakdown,
         isTrusted |-> isTrusted,
         reasons |-> generateReasons(features, breakdown, hashMatch)]

----------------------------------------------------------------------------
(* The feature vectors and reputation results handed to the scorer *)

Url(valid, host, path) == [valid |-> valid, host |-> host, path |-> path]

CdnUrl == Url(TRUE, <<"cdnjs", "cloudflare", "com">>, <<"ajax", "x.js">>)
LibUrl == Url(TRUE, <<"example", "com">>, <<"Lib", "x.js">>)
KnownUrl == Url(TRUE, <<"example", "com">>, <<"x.js">>)
FreeTldUrl == Url(TRUE, <<"evil", "tk">>, <<"x.js">>)
LongUrl == Url(TRUE, <<"abcdefghijklmnopqrstuvwxyz", "com">>, <<"x.js">>)
InvalidUrl == Url(FALSE, <<>>, <<>>)

Urls == {CdnUrl, LibUrl, KnownUrl, FreeTldUrl, LongUrl, InvalidUrl}

Dangerous(eval, atob, innerHTML) ==
    [eval |-> eval, Function |-> 0, setTimeout_string |-> 0, setInterval_string |-> 0,
     document_write |-> 0, atob |-> atob, btoa |-> 0, unescape |-> 0,
     decodeURIComponent |-> 0, innerHTML |-> innerHTML, outerHTML |-> 0]

ZeroDangerous == Dangerous(0, 0, 0)

DangerousOptions == {ZeroDangerous, Dangerous(1, 1, 0), Dangerous(3, 0, 2)}

Obfuscation(score, hexStrings, base64Strings) ==
    [score |-> score, hexStrings |-> hexStrings, unicodeEscapes |-> 0,
     charCodeUsage |-> 0, base64Strings |-> base64Strings, isObfuscated |-> score > 50]

ZeroObfuscation == Obfuscation(0, 0, 0)

ObfuscationOptions == {ZeroObfuscation, Obfuscation(35, 60, 0), Obfuscation(100, 30, 6)}

UrlAnalysis(externalPercentage, totalUrls, domains) ==
    [externalPercentage |-> externalPercentage, totalUrls |-> totalUrls,
     domains |-> domains]

LongDomain == "abcdefghijklmnopqrstuvwxyz.abcdefghijklmn.example"

ZeroUrlAnalysis == UrlAnalysis(0, 0, <<>>)

UrlAnalysisOptions ==
    {ZeroUrlAnalysis,
     UrlAnalysis(10000, 1, <<"evil.tk">>),
     UrlAnalysis(9000, 25, <<LongDomain>>),
     UrlAnalysis(5000, 60, <<"1.2.3.4", "microsoft.com", "example.com">>)}

StringAnalysis(avgEntropy, maxEntropy, highEntropyStrings) ==
    [avgEntropy |-> avgEntropy, maxEntropy |-> maxEntropy,
     highEntropyStrings |-> highEntropyStrings]

ZeroStringAnalysis == StringAnalysis(0, 0, 0)

StringAnalysisOptions ==
    {ZeroStringAnalysis, StringAnalysis(3600, 4200, 6), StringAnalysis(4600, 5100, 11)}

Patterns(dynamicPropertyAccess, webSocket, cookie) ==
    [dynamicPropertyAccess |-> dynamicPropertyAccess, importScripts |-> 0,
     webSocket |-> webSocket, xhr |-> 0, fetch |-> 0, cookie |-> cookie]

ZeroPatterns == Patterns(0, 0, 0)

PatternsOptions == {ZeroPatterns, Patterns(0, 0, 1), Patterns(11, 1, 0)}

Complexity(cyclomaticComplexity, maxNestingDepth) ==
    [cyclomaticComplexity |-> cyclomaticComplexity, maxNestingDepth |-> maxNestingDepth]

ZeroComplexity == Complexity(0, 0)

ComplexityOptions == {ZeroComplexity, Complexity(51, 3), Complexity(101, 11)}

BlacklistedIpsOptions == {<<>>, <<"9.9.9.9">>}

\* hashMatch: null, the answer of a failed lookup, and matches with and without
\* a source
HashMatch(isNull, found, source) == [isNull |-> isNull, found |-> found, source |-> source]

NullHashMatch == HashMatch(TRUE, FALSE, "")

HashMatches ==
    {NullHashMatch, HashMatch(FALSE, FALSE, ""), HashMatch(FALSE, TRUE, "custom"),
     HashMatch(FALSE, TRUE, "")}

Features(url, d, o, u, st, p, c, ips) ==
    [url |-> url, dangerousFunctions |-> d, obfuscation |-> o, urlAnalysis |-> u,
     stringAnalysis |-> st, suspiciousPatterns |-> p, complexity |-> c,
     networkMatches |-> [blacklistedIps |-> ips]]

ZeroFeatures(url) ==
    Features(url, ZeroDangerous, ZeroObfuscation, ZeroUrlAnalysis, ZeroStringAnalysis,
             ZeroPatterns, ZeroComplexity, <<>>)

FeatureVectors ==
    {Features(url, d, o, u, st, p, c, ips) :
        url \in Urls, d \in DangerousOptions, o \in ObfuscationOptions,
        u \in UrlAnalysisOptions, st \in StringAnalysisOptions, p \in PatternsOptions,
        c \in ComplexityOptions, ips \in BlacklistedIpsOptions}

ScoreInput(features, hashMatch) == [features |-> features, hashMatch |-> hashMatch]

\* calculateScore has not returned
NoScore ==
    [done |-> FALSE, score |-> 0, riskLevel |-> "low", action |-> "allow",
     breakdown |-> [trustedSource |-> FALSE, hashMatch |-> 0, dangerousFunctions |-> 0,
                    obfuscation |-> 0, urls |-> 0, entropy |-> 0, patterns |-> 0,
                    complexity |-> 0, domains |-> 0, unknownDomain |-> 0,
                    ipMatches |-> 0],
     isTrusted |-> FALSE, reasons |-> <<>>]

\* a call of Scorer.calculateScore(features, hashMatch) returns
CalculateScore ==
    /\ ~scoreOut.done
    /\ scoreOut' = calculateScore(scoreIn.features, scoreIn.hashMatch)
    /\ UNCHANGED <<storage, localHashes, upd, scoreIn>>
    /\ UNCHANGED hashVars
    /\ UNCHANGED ipVars
    /\ UNCHANGED bgVars

ScoreNext ==
    \/ CalculateScore

----------------------------------------------------------------------------
(* FeatureExtractor (part_008).  A script is described by what the parser and *)
(* the regular expressions of the extractor find in its text: the outcome of  *)
(* the three parse strategies, the calls by name, the string literals, the    *)
(* statements, the URLs and the IPv4 literals.  The string literals used      *)
(* below are made of letters, digits, + and / only, the if statements have no *)
(* else branch and the loops are for statements, so the syntax tree and the   *)
(* regular expressions of the fallback count the same occurrences.            *)

Script(codeSize, calls, literals, ifs, loops, functions, depth, urls, ips) ==
    [errors |-> <<"", "", "">>, walkError |-> "", codeSize |-> codeSize,
     calls |-> calls, literals |-> literals, ifs |-> ifs, loops |-> loops,
     functions |-> functions, depth |-> depth, urls |-> urls, ips |-> ips]

CallCounts(eval, atob, fetch) == [eval |-> eval, atob |-> atob, fetch |-> fetch]

\* eval(atob('ZnVuY3Rpb24oKXt9'));
EvalAtobScript == Script(31, CallCounts(1, 1, 0), <<"ZnVuY3Rpb24oKXt9">>, 0, 0, 0, 4, <<>>, <<>>)

\* fetch('/api/data');
FetchApiScript == Script(19, CallCounts(0, 0, 1), <<"/api/data">>, 0, 0, 0, 3, <<>>, <<>>)

LongLiteral == "ABCDEFGHIJKLMNOPQRSTUVWXYZabcdef"

\* function f(a) { if (a) { for (;;) { if (a) g('ABC...def'); } } }
BranchingScript == Script(87, CallCounts(0, 0, 0), <<LongLiteral>>, 2, 1, 1, 11, <<>>, <<>>)

\* an empty file
EmptyScript == Script(0, CallCounts(0, 0, 0), <<>>, 0, 0, 0, 0, <<>>, <<>>)

\* three evals behind a loop, a literal URL of another host and an IPv4 literal
LoaderScript ==
    Script(240, CallCounts(3, 1, 1), <<LongLiteral, "ZnVuY3Rpb24oKXt9">>, 1, 2, 0, 9,
           <<"evil.tk">>, <<"9.9.9.9">>)

ScriptContents ==
    {EvalAtobScript, FetchApiScript, BranchingScript, EmptyScript, LoaderScript}

\* the errors thrown by acorn.parse under the three strategies ("": it parsed)
ParseOutcomes ==
    {<<"", "", "">>,
     <<"Unexpected token (1:1)", "", "">>,
     <<"Unexpected token (1:1)", "Unexpected token (1:2)", "">>,
     <<"Unexpected token (1:1)", "Unexpected token (1:2)", "Unexpected token (1:3)">>}

\* an exception out of the functions that walk the tree ("": none)
WalkOutcomes == {"", "too much recursion"}

Scripts ==
    {[c EXCEPT !.errors = e, !.walkError = w] :
        c \in ScriptContents, e \in ParseOutcomes, w \in WalkOutcomes}

\* calculateEntropy(str), in millionths of a bit
calculateEntropy(str) ==
    IF str = "" THEN 0
    ELSE IF str = "ZnVuY3Rpb24oKXt9" THEN 4000000
    ELSE IF str = "/api/data" THEN 2419382
    ELSE IF str = LongLiteral THEN 5000000
    ELSE 0

RECURSIVE SumOver(_, _)
SumOver(Op(_), seq) == IF seq = <<>> THEN 0 ELSE Op(Head(seq)) + SumOver(Op, Tail(seq))

RECURSIVE MaxOver(_, _)
MaxOver(Op(_), seq) ==
    IF seq = <<>> THEN 0
    ELSE LET rest == MaxOver(Op, Tail(seq))
         IN  IF Op(Head(seq)) > rest THEN Op(Head(seq)) ELSE rest

CountOver(Test(_), seq) == Cardinality({i \in DOMAIN seq : Test(seq[i])})

\* x / y rounded to the nearest integer: toFixed on a ratio
RoundDiv(x, y) == (2 * x + y) \div (2 * y)

\* new URL(scriptUrl).hostname
RECURSIVE Hostname(_)
Hostname(host) ==
    IF host = <<>> THEN ""
    ELSE IF Len(host) = 1 THEN Head(host)
    ELSE Head(host) \o "." \o Hostname(Tail(host))

\* the acorn strategy that produced the tree (0: none)
ParsedBy(script) ==
    IF script.errors[1] = "" THEN 1
    ELSE IF script.errors[2] = "" THEN 2
    ELSE IF script.errors[3] = "" THEN 3
    ELSE 0

\* the value of parseError after the three strategies ("": null)
LastParseError(script) ==
    IF script.errors[1] = "" THEN ""
    ELSE IF script.errors[2] = "" THEN ""
    ELSE script.errors[3]

\* countDangerousFunctions(ast, code)
countDangerousFunctions(script) ==
    [eval |-> script.calls.eval, Function |-> 0, setTimeout_string |-> 0,
     setInterval_string |-> 0, document_write |-> 0, atob |-> script.calls.atob,
     btoa |-> 0, unescape |-> 0, decodeURIComponent |-> 0, innerHTML |-> 0,
     outerHTML |-> 0, total |-> script.calls.eval + script.calls.atob]

\* analyzeURLs(code, scriptUrl); externalPercentage in hundredths
analyzeURLs(script, url) ==
    LET scriptDomain == IF url.valid THEN Hostname(url.host) ELSE ""
        external(u) == u # scriptDomain
        externalCount == CountOver(external, script.urls)
    IN  [totalUrls |-> Len(script.urls),
         uniqueDomains |-> Cardinality({script.urls[i] : i \in DOMAIN script.urls}),
         externalUrls |-> externalCount,
         externalPercentage |->
             IF Len(script.urls) > 0
             THEN RoundDiv(externalCount * 10000, Len(script.urls)) ELSE 0,
         domains |-> script.urls]

\* countBase64Strings(code): runs of 20 or more letters, digits, + and /
countBase64Strings(script) ==
    LET run(lit) == Len(lit) >= 20
    IN  CountOver(run, script.literals)

\* detectObfuscation(code, ast)
detectObfuscation(script) ==
    LET base64Strings == countBase64Strings(script)
        score == IF base64Strings > 5 THEN 15 ELSE 0
    IN  [hexStrings |-> 0, unicodeEscapes |-> 0, base64Strings |-> base64Strings,
         longIdentifiers |-> 0, stringConcatenation |-> 0, charCodeUsage |-> 0,
         score |-> IF score < 100 THEN score ELSE 100,
         isObfuscated |-> score > 40]

\* a tree walk that takes every statement for one branch more than it is
calculateComplexityPlusTwo(script) ==
    [loops |-> script.loops, conditionals |-> script.ifs, functions |-> script.functions,
     maxNestingDepth |-> script.depth,
     cyclomaticComplexity |-> 2 + script.ifs + script.loops]

\* calculateComplexity(ast)
calculateComplexity(script) ==
    [loops |-> script.loops, conditionals |-> script.ifs, functions |-> script.functions,
     maxNestingDepth |-> script.depth,
     cyclomaticComplexity |-> 1 + script.ifs + script.loops]

\* analyzeStrings(code, ast); the entropies in thousandths, the length in tenths
analyzeStrings(script) ==
    LET strings == script.literals
        n == Len(strings)
        high(s) == calculateEntropy(s) > 4500000
    IN  [totalStrings |-> n,
         avgEntropy |->
             IF n > 0 THEN RoundDiv(SumOver(calculateEntropy, strings) \div n, 1000) ELSE 0,
         maxEntropy |-> RoundDiv(MaxOver(calculateEntropy, strings), 1000),
         highEntropyStrings |-> CountOver(high, strings),
         avgStringLength |-> IF n > 0 THEN RoundDiv(10 * SumOver(Len, strings), n) ELSE 0]

\* detectSuspiciousPatterns(ast, code)
detectSuspiciousPatterns(script) ==
    [dynamicPropertyAccess |-> 0, importScripts |-> 0, webSocket |-> 0, xhr |-> 0,
     fetch |-> script.calls.fetch, postMessage |-> 0, localStorage |-> 0, cookie |-> 0]

\* getFallbackFeatures(code, url); Date.now() is read as 0
getFallbackFeatures(script, url) ==
    [url |-> url,
     codeSize |-> script.codeSize,
     timestamp |-> 0,
     parseError |-> TRUE,
     dangerousFunctions |->
         [eval |-> script.calls.eval, Function |-> 0, setTimeout_string |-> 0,
          setInterval_string |-> 0, document_write |-> 0, atob |-> script.calls.atob,
          btoa |-> 0, unescape |-> 0, decodeURIComponent |-> 0, innerHTML |-> 0,
          outerHTML |-> 0],
     urlAnalysis |->
         [totalUrls |-> Len(script.urls), externalUrls |-> Len(script.urls),
          externalPercentage |-> 10000, uniqueDomains |-> 0, domains |-> <<>>],
     obfuscation |->
         [hexStrings |-> 0, unicodeEscapes |-> 0,
          base64Strings |-> countBase64Strings(script), charCodeUsage |-> 0,
          isObfuscated |-> FALSE, score |-> 0],
     complexity |->
         [loops |-> script.loops, conditionals |-> script.ifs,
          functions |-> script.functions, maxNestingDepth |-> 0,
          cyclomaticComplexity |-> 0],
     stringAnalysis |->
         [totalStrings |-> Len(script.literals), avgEntropy |-> 0, maxEntropy |-> 0,
          highEntropyStrings |-> 0],
     suspiciousPatterns |->
         [dynamicPropertyAccess |-> 0, importScripts |-> 0, webSocket |-> 0, xhr |-> 0,
          fetch |-> script.calls.fetch, cookie |-> 0]]

\* the features object built from the syntax tree; blacklisted is the set of
\* literal IPs for which IpDB.isIpBlacklisted answers found
TreeFeatures(script, url, blacklisted) ==
    [url |-> url,
     codeSize |-> script.codeSize,
     timestamp |-> 0,
     dangerousFunctions |-> countDangerousFunctions(script),
     urlAnalysis |-> analyzeURLs(script, url),
     obfuscation |-> detectObfuscation(script),
     complexity |-> calculateComplexity(script),
     stringAnalysis |-> analyzeStrings(script),
     suspiciousPatterns |-> detectSuspiciousPatterns(script),
     networkMatches |->
         [ips |-> script.ips,
          blacklistedIps |-> SelectSeq(script.ips, LAMBDA ip : ip \in blacklisted)],
     extractionTime |-> 0]

\* what extractFeatures resolves with; parseError and extractionError "" are
\* absent fields
FeatureResult(success, features, parseError, extractionError) ==
    [success |-> success, features |-> features, parseError |-> parseError,
     extractionError |-> extractionError]

\* an extractor that reports a script it cannot parse as a failure
extractFeaturesStrict(script, url, blacklisted) ==
    IF ParsedBy(script) = 0
    THEN FeatureResult(FALSE, getFallbackFeatures(script, url), LastParseError(script), "")
    ELSE FeatureResult(TRUE, TreeFeatures(script, url, blacklisted), "", "")

\* FeatureExtractor.extractFeatures(code, url)
extractFeatures(script, url, blacklisted) ==
    IF ParsedBy(script) = 0
    THEN FeatureResult(TRUE, getFallbackFeatures(script, url), LastParseError(script), "")
    ELSE IF script.walkError # ""
    THEN FeatureResult(TRUE, getFallbackFeatures(script, url), "", script.walkError)
    ELSE FeatureResult(TRUE, TreeFeatures(script, url, blacklisted), "", "")

\* the vectors extractFeatures returns for the scripts above
ExtractedVectors ==
    {extractFeatures(script, url, blacklisted).features :
        script \in Scripts, url \in Urls, blacklisted \in {{}, {"9.9.9.9"}}}

\* a text that has not been read yet
NoScript == [codeSize |-> 0]

\* the features of a result that is not there yet
NoFeatures == [url |-> InvalidUrl]

\* a call of extractFeatures: its arguments, and what it resolved with
Extraction(script, url) ==
    [script |-> script, url |-> url, done |-> FALSE,
     result |-> FeatureResult(FALSE, NoFeatures, "", "")]

\* no call has been made
NoExtraction == Extraction(NoScript, InvalidUrl)

\* the call resolves; the per-IP answers of IpDB are drawn here
ExtractFeatures ==
    /\ ~extraction.done
    /\ \E blacklisted \in SUBSET {extraction.script.ips[i] : i \in DOMAIN extraction.script.ips} :
          extraction' = [extraction EXCEPT
                            !.done = TRUE,
                            !.result = extractFeatures(extraction.script, extraction.url,
                                                       blacklisted)]
    /\ UNCHANGED <<storage, localHashes, upd, hashVars, ipVars, scoreVars, job,
                   checkedScripts, mlExportData, navVars, tempico>>

ExtractNext ==
    \/ ExtractFeatures

----------------------------------------------------------------------------
(* Background script: download and analysis of one script.  Two builds are     *)
(* modelled: "main" (analyzeScript with feature extraction and scoring) and    *)
(* "compat" (analyzeScriptCompat, and the identical simplified analyzeScript:  *)
(* digest lookup and blacklisted IP literals only).  The answers of            *)
(* HashUtils.calculateSHA256, HashDB.checkHash, FeatureExtractor and IpDB are  *)
(* drawn from the answers those calls can give.                                *)

\* mlExportData keeps its last 100 entries
MaxMlRecords == 100

\* the object analyzeScript or the catch handler returns; sha256 "" is
\* null / undefined, hashResult NullHashMatch and score NoScore are null /
\* undefined, error "" is an absent error field
Analysis(status, sha256, hashResult, score, ipMatches, error) ==
    [status |-> status, sha256 |-> sha256, hashResult |-> hashResult,
     score |-> score, ipMatches |-> ipMatches, error |-> error]

NoAnalysis == Analysis("", "", NullHashMatch, NoScore, <<>>, "")

\* .catch(err => ({ status: 'error', error: err.message }))
CatchAnalysisClean(message) == Analysis("clean", "", NullHashMatch, NoScore, <<>>, message)

CatchAnalysis(message) == Analysis("error", "", NullHashMatch, NoScore, <<>>, message)

\* if (!sha256) return { sha256: null, hashResult: { found: false }, ..., status: 'error' }
NoDigestAnalysis == Analysis("error", "", HashMatch(FALSE, FALSE, ""), NoScore, <<>>, "")

\* analyzeScript: the status of a scored script
StatusOfNoSuspect(action) == IF action = "block" THEN "malware" ELSE "clean"

StatusOf(action) ==
    IF action = "block" THEN "malware"
    ELSE IF action = "suspect" THEN "suspect"
    ELSE "clean"

\* analyzeScriptCompat: hash match OR any blacklisted IP -> malware
CompatStatus(hashResult, ipMatches) ==
    IF ~hashResult.isNull /\ hashResult.found THEN "malware"
    ELSE IF Len(ipMatches) > 0 THEN "malware"
    ELSE "clean"

\* what HashDB.checkHash resolves with
CheckHashAnswers ==
    {HashMatch(FALSE, FALSE, ""), HashMatch(FALSE, TRUE, "custom"),
     HashMatch(FALSE, TRUE, "local")}

\* what HashUtils.calculateSHA256 resolves with: a digest or null
DigestAnswers == {"", "aa01"}

ScriptUrls == {KnownUrl, CdnUrl, FreeTldUrl}

\* feature vectors FeatureExtractor.extractFeatures can return for a script
ExtractedFeatures(url) ==
    {ZeroFeatures(url),
     Features(url, Dangerous(1, 1, 0), ZeroObfuscation, ZeroUrlAnalysis,
              ZeroStringAnalysis, ZeroPatterns, ZeroComplexity, <<>>),
     Features(url, Dangerous(3, 0, 2), Obfuscation(100, 30, 6),
              UrlAnalysis(10000, 1, <<"evil.tk">>), StringAnalysis(4600, 5100, 11),
              Patterns(11, 1, 0), Complexity(101, 11), <<>>),
     Features(url, ZeroDangerous, ZeroObfuscation, ZeroUrlAnalysis,
              ZeroStringAnalysis, ZeroPatterns, ZeroComplexity, <<"9.9.9.9">>)}

\* the entry written by checkedScripts.set(url, {...})
CheckedEntry(analysis) ==
    [sha256 |-> analysis.sha256, status |-> analysis.status, score |-> analysis.score,
     hashSource |-> IF analysis.hashResult.source = "" THEN "none"
                    ELSE analysis.hashResult.source,
     ipMatches |-> analysis.ipMatches]

MapSet(map, key, value) ==
    [k \in DOMAIN map \cup {key} |-> IF k = key THEN value ELSE map[k]]

\* a buffer that turns away the new record once it is full
PushMlKeepOldest(data, entry) ==
    IF Len(data) >= MaxMlRecords THEN data ELSE Append(data, entry)

\* mlExportData.push(mlData); if (mlExportData.length > 100) mlExportData.shift()
PushMl(data, entry) ==
    LET pushed == Append(data, entry)
    IN  IF Len(pushed) > MaxMlRecords THEN Tail(pushed) ELSE pushed

\* featureResult before FeatureExtractor.extractFeatures has resolved
NoFeatureResult == FeatureResult(FALSE, NoFeatures, "", "")

\* if (!featureResult.success) return { ..., score: null, status: 'error' }
NoFeaturesAnalysis(sha256, hashResult) ==
    Analysis("error", sha256, hashResult, NoScore, <<>>, "")

\* what FeatureExtractor.extractFeatures resolves with, per script text: the
\* scripts of the extractor section, and texts that give the vectors above
ExtractionAnswers(url) ==
    {<<EmptyScript, FeatureResult(TRUE, f, "", "")>> : f \in ExtractedFeatures(url)}
    \cup {<<script, extractFeatures(script, url, blacklisted)>> :
              script \in Scripts, blacklisted \in {{}, {"9.9.9.9"}}}

\* no call: variant is the build, extractor the FeatureExtractor it loads
\* ("full": the syntax-tree extractor, "stub": the stub that returns {})
NoJob(variant, extractor) ==
    [pc |-> "idle", variant |-> variant, extractor |-> extractor, url |-> KnownUrl,
     timer |-> "unset", race |-> "none", sha256 |-> "",
     hashResult |-> NullHashMatch, content |-> NoScript,
     featureResult |-> NoFeatureResult, analysis |-> NoAnalysis, returned |-> FALSE,
     result |-> NoAnalysis]

\* the promise of analyzeScript settles with `analysis' (pc: "resolved", kept
\* in j.analysis) or rejects (pc: "rejected", `analysis' is then what the catch
\* handler makes of it); if the race is still pending, the await in
\* downloadAndAnalyzeScript continues: it stores the result and returns
Settle(j, pc, analysis) ==
    LET settled == [j EXCEPT !.pc = pc,
                             !.analysis = IF pc = "resolved" THEN analysis ELSE @]
    IN  IF j.race = "pending"
        THEN [settled EXCEPT !.race = IF pc = "rejected" THEN "rejected" ELSE "analysis",
                             !.returned = TRUE,
                             !.result = analysis]
        ELSE settled

Record(j, analysis) ==
    IF j.race = "pending" THEN MapSet(checkedScripts, j.url, CheckedEntry(analysis))
    ELSE checkedScripts

\* downloadAndAnalyzeScript(url) is called: fetch(url) is sent
DownloadAndAnalyzeScript ==
    /\ job.pc = "idle"
    /\ \E url \in ScriptUrls : job' = [job EXCEPT !.pc = "fetch", !.url = url]
    /\ UNCHANGED <<storage, localHashes, hashVars, upd, ipVars, scoreVars,
                   checkedScripts, mlExportData, navVars, extraction, tempico>>

\* fetch / response.text() settle: on failure the outer catch returns an error
\* result; on success the timer is armed and analyzeScript starts
ScriptFetched ==
    /\ job.pc = "fetch"
    /\ \E ok \in BOOLEAN :
          job' = IF ok
                 THEN [job EXCEPT !.pc = "sha", !.timer = "armed", !.race = "pending"]
                 ELSE [job EXCEPT !.pc = "failed", !.returned = TRUE,
                                  !.result = CatchAnalysis("NetworkError")]
    /\ UNCHANGED <<storage, localHashes, hashVars, upd, ipVars, scoreVars,
                   checkedScripts, mlExportData, navVars, extraction, tempico>>

\* HashUtils.calculateSHA256 resolves
DigestDone ==
    /\ job.pc = "sha"
    /\ \E sha256 \in DigestAnswers :
          IF sha256 = ""
          THEN /\ job' = Settle(job, "resolved", NoDigestAnalysis)
               /\ checkedScripts' = Record(job, NoDigestAnalysis)
          ELSE /\ job' = [job EXCEPT !.pc = "hash", !.sha256 = sha256]
               /\ UNCHANGED checkedScripts
    /\ UNCHANGED <<storage, localHashes, hashVars, upd, ipVars, scoreVars, mlExportData,
                   navVars, extraction, tempico>>

\* HashDB.checkHash resolves
LookupDone ==
    /\ job.pc = "hash"
    /\ \E hashResult \in CheckHashAnswers :
          job' = [job EXCEPT !.pc = IF job.variant = "main" THEN "extract" ELSE "ips",
                             !.hashResult = hashResult]
    /\ UNCHANGED <<storage, localHashes, hashVars, upd, ipVars, scoreVars,
                   checkedScripts, mlExportData, navVars, extraction, tempico>>

\* analyzeScript: FeatureExtractor.extractFeatures resolves, the script is
\* scored and the result returned; with the stub extractor the features are {}
\* and Scorer.calculateScore throws.  The branch of lines 33-41 is for an
\* extractor that answers success: false.
ExtractDone ==
    /\ job.pc = "extract"
    /\ IF job.extractor = "stub"
       THEN /\ job' = Settle(job, "rejected", CatchAnalysis("TypeError"))
            /\ checkedScripts' = Record(job, CatchAnalysis("TypeError"))
            /\ UNCHANGED mlExportData
       ELSE \E answer \in ExtractionAnswers(job.url) :
               LET featureResult == answer[2]
                   extracted == [job EXCEPT !.content = answer[1],
                                            !.featureResult = featureResult]
                   score == calculateScore(featureResult.features, job.hashResult)
                   analysis == Analysis(StatusOf(score.action), job.sha256,
                                        job.hashResult, score, <<>>, "")
                   failed == NoFeaturesAnalysis(job.sha256, job.hashResult)
               IN  IF ~featureResult.success
                   THEN /\ job' = Settle(extracted, "resolved", failed)
                        /\ checkedScripts' = Record(extracted, failed)
                        /\ UNCHANGED mlExportData
                   ELSE /\ job' = Settle(extracted, "resolved", analysis)
                        /\ checkedScripts' = Record(extracted, analysis)
                        /\ mlExportData' = PushMl(mlExportData, [url |-> job.url,
                                                                  score |-> score.score])
    /\ UNCHANGED <<storage, localHashes, hashVars, upd, ipVars, scoreVars, navVars,
                   extraction, tempico>>

\* analyzeScriptCompat: the IP literals of the script have been looked up
IpsDone ==
    /\ job.pc = "ips"
    /\ \E ipMatches \in BlacklistedIpsOptions :
          LET analysis == Analysis(CompatStatus(job.hashResult, ipMatches), job.sha256,
                                   job.hashResult, NoScore, ipMatches, "")
          IN  /\ job' = Settle(job, "resolved", analysis)
              /\ checkedScripts' = Record(job, analysis)
    /\ UNCHANGED <<storage, localHashes, hashVars, upd, ipVars, scoreVars, mlExportData,
                   navVars, extraction, tempico>>

\* 10 seconds after the download the timer rejects timeoutPromise; if the race
\* is still pending the catch handler makes the result, which is stored and
\* returned (analyzeScript itself keeps running)
Timeout ==
    /\ job.timer = "armed"
    /\ IF job.race = "pending"
       THEN /\ job' = [job EXCEPT !.timer = "fired", !.race = "timeout",
                                  !.returned = TRUE,
                                  !.result = CatchAnalysis("Timeout")]
            /\ checkedScripts' = Record(job, CatchAnalysis("Timeout"))
       ELSE /\ job' = [job EXCEPT !.timer = "fired"]
            /\ UNCHANGED checkedScripts
    /\ UNCHANGED <<storage, localHashes, hashVars, upd, ipVars, scoreVars, mlExportData,
                   navVars, extraction, tempico>>

\* the records earlier analyses, of scripts of another origin, have left in
\* mlExportData
MlFiller(n) == [k \in 1..n |-> [url |-> LibUrl, score |-> k % 101]]

\* the records pushed since
PushedSince(data) == Cardinality({k \in DOMAIN data : data[k].url \in ScriptUrls})

\* the call has returned and analyzeScript and the timer are through: the
\* background script analyzes the next script
AnalyzeAnother ==
    /\ job.returned
    /\ job.pc \in {"resolved", "rejected", "failed"}
    /\ job.timer # "armed"
    /\ PushedSince(mlExportData) < MaxAnalyses
    /\ job' = NoJob(job.variant, job.extractor)
    /\ UNCHANGED <<storage, localHashes, hashVars, upd, ipVars, scoreVars,
                   checkedScripts, mlExportData, navVars, extraction, tempico>>

AnalyzeNext ==
    \/ DownloadAndAnalyzeScript
    \/ ScriptFetched
    \/ DigestDone
    \/ LookupDone
    \/ ExtractDone
    \/ IpsDone
    \/ Timeout

----------------------------------------------------------------------------
(* Background script: interception of navigations.  A page URL is a record of  *)
(* its scheme and host name.  Time advances in ticks of 5 seconds.             *)

\* the navigations redirected to the blocking page in a run
MaxNavigations == 2
\* the ticks of a run
MaxClock == 2

\* timeSinceApproval < 10000, in ticks
ApprovalTicks == 2

Tabs == {1, 2}

PageUrl(scheme, host) == [scheme |-> scheme, host |-> host]

PageUrls ==
    {PageUrl("https", "cdn.example.com"), PageUrl("https", "evil.test"),
     PageUrl("about", "")}

RequestTypes == {"main_frame", "script"}

\* pattern.startsWith('*.')
IsWildcard(pattern) == pattern \in {"*.example.com"}

\* pattern.slice(2)
BaseDomain(pattern) ==
    CASE pattern = "*.example.com" -> "example.com"
      [] OTHER -> ""

\* domain.endsWith(baseDomain)
DomainEndsWith(domain, baseDomain) ==
    \/ baseDomain = ""
    \/ domain = baseDomain
    \/ <<domain, baseDomain>> \in {<<"cdn.example.com", "example.com">>}

\* isWhitelisted(url), with the whitelist as an argument
isWhitelisted(list, url) ==
    \E pattern \in list :
        IF IsWildcard(pattern) THEN DomainEndsWith(url.host, BaseDomain(pattern))
        ELSE url.host = pattern

Whitelists == {{}, {"cdn.example.com"}, {"*.example.com"}}

\* url.startsWith('about:') || url.startsWith('moz-extension:')
IsInternal(url) == url.scheme \in {"about", "moz-extension"}

NoTabs == [t \in {} |-> 0]

MapDelete(map, key) == [k \in DOMAIN map \ {key} |-> map[k]]

\* the script lists fetchPageScripts(url) can resolve with: the scripts of the
\* page, or [] when the fetch failed
ScriptLists(url) ==
    {<<>>, IF url.host = "evil.test" THEN <<"s1", "s2">> ELSE <<"s1">>}

\* the statuses downloadAndAnalyzeScript can return
AnalysisStatuses == {"clean", "suspect", "malware", "error"}

\* the status and the ipMatches of what downloadAndAnalyzeScript resolves with;
\* the analysis of the catch block has no ipMatches
AnalysisResults ==
    {[status |-> st, ipMatches |-> ips] :
        st \in AnalysisStatuses, ips \in {<<>>, <<"203.0.113.7">>}}
    \ {[status |-> "error", ipMatches |-> <<"203.0.113.7">>]}

\* scripts.map(url => ({ url, status: 'pending' }))
PendingScripts(scripts) ==
    [i \in 1..Len(scripts) |-> [url |-> scripts[i], status |-> "pending"]]

\* { url, scripts: [], startTime: Date.now() }; startTime is never read
NewCheck(url) == [url |-> url, scripts |-> <<>>]

\* what the listener answers: {} (redirect FALSE) or { redirectUrl }; `registered'
\* tells whether it called pendingChecks.set, `whitelisted' whether the URL
\* matched the whitelist when the request came
Response(type, url, tabId, redirect) ==
    [type |-> type, url |-> url, tabId |-> tabId, redirect |-> redirect,
     registered |-> redirect, whitelisted |-> isWhitelisted(whitelist, url)]

\* no request yet
NoResponse == Response("", PageUrl("about", ""), 0, FALSE)

\* an approval test that does not compare the URL
ApprovedAnyUrl(url, tabId) ==
    /\ tabId \in DOMAIN approvedTabs
    /\ clock - approvedTabs[tabId].timestamp < ApprovalTicks

\* the approval test of the listener: the tab holds an approval for this URL
\* younger than 10 seconds
Approved(url, tabId) ==
    /\ tabId \in DOMAIN approvedTabs
    /\ approvedTabs[tabId].url = url
    /\ clock - approvedTabs[tabId].timestamp < ApprovalTicks

\* an approval for this URL that is too old is deleted
Expired(url, tabId) ==
    /\ tabId \in DOMAIN approvedTabs
    /\ approvedTabs[tabId].url = url
    /\ ~(clock - approvedTabs[tabId].timestamp < ApprovalTicks)

\* browser.webRequest.onBeforeRequest listener
OnBeforeRequest ==
    /\ \E type \in RequestTypes, url \in PageUrls, tabId \in Tabs :
          IF \/ ~isEnabled
             \/ type # "main_frame"
             \/ IsInternal(url)
             \/ Approved(url, tabId)
          THEN /\ response' = Response(type, url, tabId, FALSE)
               /\ UNCHANGED <<approvedTabs, checks, pendingChecks, fetches>>
          ELSE /\ Len(checks) < MaxNavigations
               /\ approvedTabs' = IF Expired(url, tabId)
                                  THEN MapDelete(approvedTabs, tabId)
                                  ELSE approvedTabs
               /\ fetches' = Append(fetches, [tabId |-> tabId, url |-> url,
                                              done |-> FALSE])
               /\ checks' = Append(checks, NewCheck(url))
               /\ pendingChecks' = MapSet(pendingChecks, tabId, Len(checks) + 1)
               /\ response' = Response(type, url, tabId, TRUE)
    /\ UNCHANGED <<storage, localHashes, hashVars, upd, ipVars, scoreVars, job,
                   checkedScripts, mlExportData, whitelist, isEnabled, clock, analyses,
                   pageVars, extraction, tempico>>

\* a listener call suspended at `await browser.tabs.get(tabId)'
Get(tabId, url) == [tabId |-> tabId, url |-> url]

\* the sequence without its element g
Without(seq, g) == SubSeq(seq, 1, g - 1) \o SubSeq(seq, g + 1, Len(seq))

\* the listener of background.compat.js up to its await: the tests that let a
\* request pass, the removal of an expired approval, then browser.tabs.get
OnBeforeRequestCompat ==
    /\ job.variant = "compat"
    /\ \E type \in RequestTypes, url \in PageUrls, tabId \in Tabs :
          IF \/ ~isEnabled
             \/ type # "main_frame"
             \/ IsInternal(url)
             \/ Approved(url, tabId)
          THEN /\ response' = Response(type, url, tabId, FALSE)
               /\ UNCHANGED <<approvedTabs, gets>>
          ELSE /\ Len(checks) + Len(gets) < MaxNavigations
               /\ approvedTabs' = IF Expired(url, tabId)
                                  THEN MapDelete(approvedTabs, tabId)
                                  ELSE approvedTabs
               /\ gets' = Append(gets, Get(tabId, url))
               /\ UNCHANGED response
    /\ UNCHANGED <<storage, localHashes, hashVars, upd, ipVars, scoreVars, job,
                   checkedScripts, mlExportData, whitelist, isEnabled, clock, checks,
                   pendingChecks, fetches, analyses, statusVars, extraction, tempico>>

\* browser.tabs.get has settled (a rejection is caught and ignored): the page
\* fetch is started, the pending check is set and the redirect is returned.
\* The 600 ms fallback only navigates the tab to the blocking page.
TabsGetCompat ==
    /\ \E g \in 1..Len(gets) :
        /\ gets' = Without(gets, g)
        /\ fetches' = Append(fetches, [tabId |-> gets[g].tabId, url |-> gets[g].url,
                                       done |-> FALSE])
        /\ checks' = Append(checks, NewCheck(gets[g].url))
        /\ pendingChecks' = MapSet(pendingChecks, gets[g].tabId, Len(checks) + 1)
        /\ response' = Response("main_frame", gets[g].url, gets[g].tabId, TRUE)
    /\ UNCHANGED <<storage, localHashes, hashVars, upd, ipVars, scoreVars, job,
                   checkedScripts, mlExportData, whitelist, isEnabled, clock,
                   approvedTabs, analyses, statusVars, extraction, tempico>>

\* the listener of the simplified background script up to its await: the page
\* fetch is started before browser.tabs.get is awaited
OnBeforeRequestSimple ==
    /\ \E type \in RequestTypes, url \in PageUrls, tabId \in Tabs :
          IF \/ ~isEnabled
             \/ type # "main_frame"
             \/ IsInternal(url)
             \/ Approved(url, tabId)
          THEN /\ response' = Response(type, url, tabId, FALSE)
               /\ UNCHANGED <<approvedTabs, fetches, gets>>
          ELSE /\ Len(checks) + Len(gets) < MaxNavigations
               /\ approvedTabs' = IF Expired(url, tabId)
                                  THEN MapDelete(approvedTabs, tabId)
                                  ELSE approvedTabs
               /\ fetches' = Append(fetches, [tabId |-> tabId, url |-> url,
                                              done |-> FALSE])
               /\ gets' = Append(gets, [tabId |-> tabId, url |-> url,
                                        fetch |-> Len(fetches) + 1])
               /\ UNCHANGED response
    /\ UNCHANGED <<storage, localHashes, hashVars, upd, ipVars, scoreVars, job,
                   checkedScripts, mlExportData, whitelist, isEnabled, clock, checks,
                   pendingChecks, analyses, statusVars, extraction, tempico>>

\* browser.tabs.get has settled: the pending check is set and the redirect is
\* returned
TabsGetSimple ==
    /\ \E g \in 1..Len(gets) :
        /\ gets' = Without(gets, g)
        /\ checks' = Append(checks, NewCheck(gets[g].url))
        /\ pendingChecks' = MapSet(pendingChecks, gets[g].tabId, Len(checks) + 1)
        /\ response' = Response("main_frame", gets[g].url, gets[g].tabId, TRUE)
    /\ UNCHANGED <<storage, localHashes, hashVars, upd, ipVars, scoreVars, job,
                   checkedScripts, mlExportData, whitelist, isEnabled, clock,
                   approvedTabs, fetches, analyses, statusVars, extraction, tempico>>

\* fetchPageScripts(url).then(scripts => ...): the scripts are attached to the
\* entry the tab has now, and their analyses start
PageScriptsFetched ==
    \E f \in 1..Len(fetches) : \E scripts \in ScriptLists(fetches[f].url) :
        /\ ~fetches[f].done
        /\ fetches' = [fetches EXCEPT ![f].done = TRUE]
        /\ IF fetches[f].tabId \in DOMAIN pendingChecks
           THEN LET c == pendingChecks[fetches[f].tabId]
                IN  /\ checks' = [checks EXCEPT ![c].scripts = PendingScripts(scripts)]
                    /\ analyses' = analyses \o
                           [i \in 1..Len(scripts) |->
                               [check |-> c, url |-> scripts[i], done |-> FALSE]]
           ELSE UNCHANGED <<checks, analyses>>
        /\ UNCHANGED <<storage, localHashes, hashVars, upd, ipVars, scoreVars, job,
                       checkedScripts, mlExportData, whitelist, isEnabled, clock,
                       approvedTabs, pendingChecks, response, pageVars, extraction, tempico>>

\* pending.scripts.find(s => s.url === scriptUrl): its index, 0 if none
FindScript(scripts, url) ==
    IF \E i \in 1..Len(scripts) : scripts[i].url = url
    THEN CHOOSE i \in 1..Len(scripts) :
            /\ scripts[i].url = url
            /\ \A j \in 1..(i - 1) : scripts[j].url # url
    ELSE 0

\* downloadAndAnalyzeScript(scriptUrl).then(analysis => ...): the status is
\* written to the script of that URL in the entry the analysis was started for
ScriptAnalyzed ==
    \E a \in 1..Len(analyses), analysis \in AnalysisResults :
        /\ ~analyses[a].done
        /\ analyses' = [analyses EXCEPT ![a].done = TRUE]
        /\ LET c == analyses[a].check
               i == FindScript(checks[c].scripts, analyses[a].url)
           IN  checks' = IF i = 0 THEN checks
                         ELSE [checks EXCEPT ![c].scripts[i] =
                                   [url |-> @.url, status |-> analysis.status,
                                    ipMatches |-> analysis.ipMatches]]
        /\ UNCHANGED <<storage, localHashes, hashVars, upd, ipVars, scoreVars, job,
                       checkedScripts, mlExportData, whitelist, isEnabled, clock,
                       approvedTabs, pendingChecks, fetches, response, pageVars, extraction,
                   tempico>>

\* the blocking page was opened for this URL in this tab
Blocked(url, tabId) ==
    \E f \in 1..Len(fetches) :
        /\ fetches[f].url = url
        /\ fetches[f].tabId = tabId

\* message 'approveTab' from the blocking page
ApproveTab ==
    /\ \E tabId \in Tabs, url \in PageUrls :
          /\ Blocked(url, tabId)
          /\ approvedTabs' = MapSet(approvedTabs, tabId,
                                    [url |-> url, timestamp |-> clock])
          /\ IF tabId \in DOMAIN blocking
             THEN /\ url = blocking[tabId].url
                  /\ \E r \in 1..Len(blocking[tabId].redirects) :
                        /\ blocking[tabId].redirects[r].stage = "approve"
                        /\ blocking' = [blocking EXCEPT ![tabId].redirects =
                               IF blocking[tabId].left = ""
                               THEN [@ EXCEPT ![r].stage = "fade"]
                               ELSE Without(@, r)]
             ELSE UNCHANGED blocking
    /\ UNCHANGED <<storage, localHashes, hashVars, upd, ipVars, scoreVars, job,
                   checkedScripts, mlExportData, whitelist, isEnabled, clock, checks,
                   pendingChecks, fetches, analyses, response, gets, polls, timers,
                   submits, extraction, tempico>>

\* message 'addToWhitelist'
AddToWhitelist ==
    /\ \E url \in PageUrls, tabId \in Tabs :
          /\ Blocked(url, tabId)
          /\ url.host \notin whitelist
          /\ whitelist' = whitelist \cup {url.host}
    /\ UNCHANGED <<storage, localHashes, hashVars, upd, ipVars, scoreVars, job,
                   checkedScripts, mlExportData, isEnabled, clock, approvedTabs, checks,
                   pendingChecks, fetches, analyses, response, pageVars, extraction, tempico>>

\* browser.tabs.onRemoved
TabRemoved ==
    /\ \E tabId \in Tabs :
          /\ tabId \in DOMAIN approvedTabs \cup DOMAIN pendingChecks
          /\ approvedTabs' = MapDelete(approvedTabs, tabId)
          /\ pendingChecks' = MapDelete(pendingChecks, tabId)
    /\ UNCHANGED <<storage, localHashes, hashVars, upd, ipVars, scoreVars, job,
                   checkedScripts, mlExportData, whitelist, isEnabled, clock, checks,
                   fetches, analyses, response, pageVars, extraction, tempico>>

\* five seconds pass
Tick ==
    /\ clock < MaxClock
    /\ clock' = clock + 1
    /\ UNCHANGED <<storage, localHashes, hashVars, upd, ipVars, scoreVars, job,
                   checkedScripts, mlExportData, whitelist, isEnabled, approvedTabs,
                   checks, pendingChecks, fetches, analyses, response, pageVars, extraction,
                   tempico>>

----------------------------------------------------------------------------
(* The checkStatus message of the blocking page and its handler in the        *)
(* background script.  A message is a record in `polls': status "" while it   *)
(* travels to the background, the answer of sendResponse afterwards.          *)

\* the checkStatus messages in flight at a time
MaxPolls == 1

\* { action: 'checkStatus', tabId }
Poll(tabId) == [tabId |-> tabId, status |-> ""]

\* an AllChecked that does not ask for a script
AllCheckedOrEmpty(pending) ==
    \A i \in 1..Len(pending.scripts) : pending.scripts[i].status # "pending"

\* pending.scripts.length > 0 && pending.scripts.every(s => s.status !== 'pending')
AllChecked(pending) ==
    /\ Len(pending.scripts) > 0
    /\ \A i \in 1..Len(pending.scripts) : pending.scripts[i].status # "pending"

\* pending.scripts.some(s => s.status === status)
SomeStatus(pending, status) ==
    \E i \in 1..Len(pending.scripts) : pending.scripts[i].status = status

\* the answer of the handler for an entry; totalScripts is scripts.length
StatusAnswer(tabId, pending) ==
    [tabId |-> tabId,
     status |-> IF AllChecked(pending) THEN "complete" ELSE "checking",
     hasMalware |-> SomeStatus(pending, "malware"),
     hasSuspect |-> SomeStatus(pending, "suspect"),
     scripts |-> pending.scripts]

\* setTimeout(() => pendingChecks.delete(tabId), 5000); `check' names the entry
\* that was reported complete: the callback does not have it, the claims about
\* the timer refer to it
CleanupTimer(tabId, check) == [tabId |-> tabId, check |-> check]

\* the handler of 'checkStatus'
CheckStatus ==
    /\ \E m \in 1..Len(polls) :
        /\ polls[m].status = ""
        /\ LET tabId == polls[m].tabId
           IN  IF tabId \notin DOMAIN pendingChecks
               THEN /\ polls' = [polls EXCEPT ![m] = [tabId |-> tabId,
                                                      status |-> "no_check"]]
                    /\ UNCHANGED timers
               ELSE LET pending == checks[pendingChecks[tabId]]
                    IN  /\ polls' = [polls EXCEPT ![m] = StatusAnswer(tabId, pending)]
                        /\ timers' = IF AllChecked(pending)
                                     THEN Append(timers,
                                                 CleanupTimer(tabId, pendingChecks[tabId]))
                                     ELSE timers
    /\ UNCHANGED <<storage, localHashes, hashVars, upd, ipVars, scoreVars, job,
                   checkedScripts, mlExportData, whitelist, isEnabled, clock,
                   approvedTabs, checks, pendingChecks, fetches, analyses, response,
                   gets, blocking, submits, extraction, tempico>>

\* the cleanup timer fires: timers of equal delay fire in the order they were
\* armed
CleanupFired ==
    /\ timers # <<>>
    /\ pendingChecks' = MapDelete(pendingChecks, timers[1].tabId)
    /\ timers' = Tail(timers)
    /\ UNCHANGED <<storage, localHashes, hashVars, upd, ipVars, scoreVars, job,
                   checkedScripts, mlExportData, whitelist, isEnabled, clock,
                   approvedTabs, checks, fetches, analyses, response, gets, polls,
                   blocking, submits, extraction, tempico>>

----------------------------------------------------------------------------
(* The blocking page (ui/blocking.js).  `blocking' holds the page of a tab    *)
(* when the page is part of the run; a tab without a record has a page whose  *)
(* polls arrive but whose own state is left out.                              *)

\* if (checkCount > 60)
MaxChecks == 60

\* the document after DOMContentLoaded: startScanning has set the interval.
\* riskScore, title and warning are what the page shows, delays the armed
\* setTimeout(() => redirectToTarget(), ...), redirects the running calls of
\* redirectToTarget, left how the document was left ("" while it is open)
NewBlocking(url) ==
    [url |-> url, checkCount |-> 0, interval |-> TRUE, riskScore |-> 0,
     title |-> "", warning |-> FALSE, delays |-> 0, redirects |-> <<>>,
     left |-> ""]

\* redirectToTarget was called by the poll callback, a timer or a click and
\* awaits the answer to approveTab
Redirect(by) == [by |-> by, stage |-> "approve"]

\* s.ipMatches && s.ipMatches.length > 0
HasIpMatches(script) ==
    /\ "ipMatches" \in DOMAIN script
    /\ Len(script.ipMatches) > 0

\* maliciousScripts.length + ipThreats.length
ThreatCount(scripts) ==
    Cardinality({i \in 1..Len(scripts) : scripts[i].status = "malware"})
    + Cardinality({i \in 1..Len(scripts) :
                      HasIpMatches(scripts[i]) /\ scripts[i].status # "malware"})

\* the interval callback after its await, lines 28-58
AfterPoll(page, answer) ==
    IF answer.status = "no_check"
    THEN [page EXCEPT !.redirects = Append(@, Redirect("poll"))]
    ELSE LET threatCount == ThreatCount(answer.scripts)
             complete == answer.status = "complete"
             timeout == page.checkCount > MaxChecks
         IN  [page EXCEPT
                !.riskScore = threatCount,
                !.interval = IF complete \/ timeout THEN FALSE ELSE @,
                !.warning = IF complete /\ threatCount > 0 THEN TRUE ELSE @,
                !.title = IF timeout THEN "timeout"
                          ELSE IF complete /\ threatCount = 0 THEN "safe" ELSE @,
                !.delays = @ + (IF complete /\ threatCount = 0 THEN 1 ELSE 0)
                             + (IF timeout THEN 1 ELSE 0)]

\* the interval of a blocking page fires: checkCount++ and the page of a tab
\* that was redirected sends checkStatus
SendCheckStatus ==
    /\ Len(polls) < MaxPolls
    /\ Len(timers) < MaxPolls
    /\ \E tabId \in Tabs :
        /\ \E url \in PageUrls : Blocked(url, tabId)
        /\ polls' = Append(polls, Poll(tabId))
        /\ IF tabId \in DOMAIN blocking
           THEN /\ blocking[tabId].left = ""
                /\ blocking[tabId].interval
                /\ Len(blocking[tabId].redirects) < MaxPolls
                /\ blocking' = [blocking EXCEPT ![tabId].checkCount = @ + 1]
           ELSE UNCHANGED blocking
    /\ UNCHANGED <<storage, localHashes, hashVars, upd, ipVars, scoreVars, job,
                   checkedScripts, mlExportData, whitelist, isEnabled, clock,
                   approvedTabs, checks, pendingChecks, fetches, analyses, response,
                   gets, timers, submits, extraction, tempico>>

\* the answer has reached the page that polled; a document that was left runs
\* nothing any more
StatusReceived ==
    /\ \E m \in 1..Len(polls) :
        /\ polls[m].status # ""
        /\ polls' = Without(polls, m)
        /\ LET tabId == polls[m].tabId
           IN  blocking' = IF tabId \in DOMAIN blocking /\ blocking[tabId].left = ""
                           THEN [blocking EXCEPT ![tabId] = AfterPoll(@, polls[m])]
                           ELSE blocking
    /\ UNCHANGED <<storage, localHashes, hashVars, upd, ipVars, scoreVars, job,
                   checkedScripts, mlExportData, whitelist, isEnabled, clock,
                   approvedTabs, checks, pendingChecks, fetches, analyses, response,
                   gets, timers, submits, extraction, tempico>>

\* a timer set by showSuccess' caller (1500 ms) or by showTimeout (3000 ms)
\* fires and calls redirectToTarget
DelayFired ==
    /\ \E tabId \in DOMAIN blocking :
        /\ blocking[tabId].left = ""
        /\ blocking[tabId].delays > 0
        /\ blocking' = [blocking EXCEPT ![tabId].delays = @ - 1,
                                        ![tabId].redirects = Append(@, Redirect("timer"))]
    /\ UNCHANGED <<storage, localHashes, hashVars, upd, ipVars, scoreVars, job,
                   checkedScripts, mlExportData, whitelist, isEnabled, clock,
                   approvedTabs, checks, pendingChecks, fetches, analyses, response,
                   gets, polls, timers, submits, extraction, tempico>>

\* the user clicks btnContinueMalware, which the malware warning shows
ContinueClicked ==
    /\ \E tabId \in DOMAIN blocking :
        /\ blocking[tabId].left = ""
        /\ blocking[tabId].warning
        /\ Len(blocking[tabId].redirects) < MaxPolls
        /\ blocking' = [blocking EXCEPT ![tabId].redirects = Append(@, Redirect("click"))]
    /\ UNCHANGED <<storage, localHashes, hashVars, upd, ipVars, scoreVars, job,
                   checkedScripts, mlExportData, whitelist, isEnabled, clock,
                   approvedTabs, checks, pendingChecks, fetches, analyses, response,
                   gets, polls, timers, submits, extraction, tempico>>

\* the user clicks btnBlockMalware: navigateBack
BackClicked ==
    /\ \E tabId \in DOMAIN blocking :
        /\ blocking[tabId].left = ""
        /\ blocking[tabId].warning
        /\ blocking' = [blocking EXCEPT ![tabId].left = "back"]
    /\ UNCHANGED <<storage, localHashes, hashVars, upd, ipVars, scoreVars, job,
                   checkedScripts, mlExportData, whitelist, isEnabled, clock,
                   approvedTabs, checks, pendingChecks, fetches, analyses, response,
                   gets, polls, timers, submits, extraction, tempico>>

\* the 350 ms fade of redirectToTarget is over: window.location.href = targetUrl
TargetOpened ==
    /\ \E tabId \in DOMAIN blocking :
        /\ blocking[tabId].left = ""
        /\ \E r \in 1..Len(blocking[tabId].redirects) :
            /\ blocking[tabId].redirects[r].stage = "fade"
            /\ blocking' = [blocking EXCEPT
                               ![tabId].left = blocking[tabId].redirects[r].by,
                               ![tabId].redirects = Without(@, r)]
    /\ UNCHANGED <<storage, localHashes, hashVars, upd, ipVars, scoreVars, job,
                   checkedScripts, mlExportData, whitelist, isEnabled, clock,
                   approvedTabs, checks, pendingChecks, fetches, analyses, response,
                   gets, polls, timers, submits, extraction, tempico>>

----------------------------------------------------------------------------
(* The submitHash message of the popup and its handler in the background      *)
(* script.  `submits.handlers' holds a record per message: pc "get" while     *)
(* storage.local.get is on its way, "read" once the storage has answered with *)
(* the list it held, "acked" after the callback.  `submits.changes' holds     *)
(* the storage.onChanged events not yet delivered, in the order of the sets.  *)

\* the submitHash messages of a run
MaxSubmits == 2

\* the hashes the user submits
SubmittedHashes == {"aa01", "ab02"}

NoSubmits == [handlers |-> <<>>, changes |-> <<>>]

\* { hash, type, description, timestamp }, as far as checkHash reads it
CustomEntry(hash) == [hash |-> hash, description |-> "submitted"]

\* the handler of 'submitHash': browser.storage.local.get('customHashes') is
\* called and the handler returns true
SubmitHash ==
    /\ Len(submits.handlers) < MaxSubmits
    /\ \E hash \in SubmittedHashes :
        /\ \A h \in 1..Len(submits.handlers) : submits.handlers[h].hash # hash
        /\ submits' = [submits EXCEPT !.handlers =
                          Append(@, [hash |-> hash, pc |-> "get", result |-> <<>>])]
    /\ UNCHANGED <<storage, localHashes, hashVars, upd, ipVars, scoreVars, job,
                   checkedScripts, mlExportData, whitelist, isEnabled, clock,
                   approvedTabs, checks, pendingChecks, fetches, analyses, response,
                   gets, polls, timers, blocking, extraction, tempico>>

\* the storage serves the get: result.customHashes is the list stored now
SubmitRead ==
    /\ \E h \in 1..Len(submits.handlers) :
        /\ submits.handlers[h].pc = "get"
        /\ submits' = [submits EXCEPT !.handlers[h].pc = "read",
                                      !.handlers[h].result = storage.customHashes]
    /\ UNCHANGED <<storage, localHashes, hashVars, upd, ipVars, scoreVars, job,
                   checkedScripts, mlExportData, whitelist, isEnabled, clock,
                   approvedTabs, checks, pendingChecks, fetches, analyses, response,
                   gets, polls, timers, blocking, extraction, tempico>>

\* the callback of the get: push, storage.local.set, HashDB.addCustomHashes,
\* sendResponse({ success: true })
SubmitStore ==
    /\ \E h \in 1..Len(submits.handlers) :
        /\ submits.handlers[h].pc = "read"
        /\ LET list == Append(submits.handlers[h].result,
                              CustomEntry(submits.handlers[h].hash))
           IN  /\ storage' = [storage EXCEPT !.customHashes = list]
               /\ customHashes' = list
               /\ submits' = [submits EXCEPT !.handlers[h].pc = "acked",
                                             !.changes = Append(@, list)]
    /\ UNCHANGED <<localHashes, shardCache, shardPromises, loads, callers, pkgPos,
                   upd, ipVars, scoreVars, job, checkedScripts, mlExportData,
                   whitelist, isEnabled, clock, approvedTabs, checks, pendingChecks,
                   fetches, analyses, response, gets, polls, timers, blocking,
                   extraction, tempico>>

\* browser.storage.onChanged: changes.customHashes.newValue goes to HashDB
CustomHashesChanged ==
    /\ submits.changes # <<>>
    /\ customHashes' = Head(submits.changes)
    /\ submits' = [submits EXCEPT !.changes = Tail(@)]
    /\ UNCHANGED <<storage, localHashes, shardCache, shardPromises, loads, callers,
                   pkgPos, upd, ipVars, scoreVars, job, checkedScripts, mlExportData,
                   whitelist, isEnabled, clock, approvedTabs, checks, pendingChecks,
                   fetches, analyses, response, gets, polls, timers, blocking,
                   extraction, tempico>>

\* the listener, the messages of the blocking page and the clock
NavNext ==
    \/ OnBeforeRequest
    \/ ApproveTab
    \/ AddToWhitelist
    \/ TabRemoved
    \/ Tick

\* the callbacks of the page fetch and of the script analyses
PageNext ==
    \/ PageScriptsFetched
    \/ ScriptAnalyzed

----------------------------------------------------------------------------
(* Initial states *)

\* no request has been intercepted; the settings are the defaults
InitNavIdle ==
    /\ whitelist = {}
    /\ isEnabled = TRUE
    /\ clock = 0
    /\ approvedTabs = NoTabs
    /\ checks = <<>>
    /\ pendingChecks = NoTabs
    /\ fetches = <<>>
    /\ analyses = <<>>
    /\ response = NoResponse
    /\ gets = <<>>
    /\ polls = <<>>
    /\ timers = <<>>
    /\ blocking = NoTabs
    /\ submits = NoSubmits

\* the background script has made no call
InitBgIdle ==
    /\ extraction = NoExtraction
    /\ tempico = NoTempico
    /\ job = NoJob("main", "full")
    /\ checkedScripts = [u \in {} |-> CheckedEntry(NoAnalysis)]
    /\ mlExportData = <<>>
    /\ InitNavIdle

InitScoreIdle ==
    /\ scoreIn = ScoreInput(ZeroFeatures(KnownUrl), NullHashMatch)
    /\ scoreOut = NoScore
    /\ InitBgIdle

\* the background page has loaded its scripts: IpDB.loadAll() was kicked off
\* (part_005 line 129) and waits for its storage read
InitDb ==
    /\ storage \in {EmptyStorage, PriorStorage}
    /\ localHashes = {}
    /\ shardCache = [p \in {} |-> {}]
    /\ shardPromises = [p \in {} |-> 0]
    /\ customHashes = <<>>
    /\ loads = <<>>
    /\ callers = [c \in Calls |-> NoCall]
    /\ pkgPos = -1
    /\ upd = UpdIdle
    /\ ipMap = EmptyMap
    /\ ipLoaded = FALSE
    /\ ipLoading = 0
    /\ ipLoaders = <<NewLoader>>
    /\ ipCallers = [c \in IpCalls |-> NoIpCall]

Init == InitDb /\ InitScoreIdle

\* the dataset updater alone
SpecUpd == Init /\ [][UpdNext]_vars

\* lookups of digests, with the custom entries and the packaged baseline
SpecHash == Init /\ [][HashNext]_vars

\* the IP block of checkAndUpdateAll (lines 126-143)
UpdIpNext ==
    \/ FetchIpMetadata
    \/ IpGetOld
    \/ IpDownload
    \/ IpStore
    \/ IpApply

\* checkAndUpdateAll has left its SHA256 block through the catch of line 122
\* (the metadata fetch failed) and is about to fetch the IP metadata
InitIp ==
    /\ storage \in {EmptyStorage, PriorStorage}
    /\ localHashes = {}
    /\ shardCache = [p \in {} |-> {}]
    /\ shardPromises = [p \in {} |-> 0]
    /\ customHashes = <<>>
    /\ loads = <<>>
    /\ callers = [c \in Calls |-> NoCall]
    /\ pkgPos = -1
    /\ upd = ShaEnd(UpdIdle, ErrorResult)
    /\ ipMap = EmptyMap
    /\ ipLoaded = FALSE
    /\ ipLoading = 0
    /\ ipLoaders = <<NewLoader>>
    /\ ipCallers = [c \in IpCalls |-> NoIpCall]
    /\ InitScoreIdle

\* IP lookups and IpDB.loadAll next to the IP block of the dataset updater
SpecIp == InitIp /\ [][IpNext \/ UpdIpNext]_vars

\* downloadAndCacheShards next to the lookups of one caller
ShardUpdNext ==
    \/ ShardIndexFetch
    \/ ShardGetOld
    \/ ShardDownload
    \/ ShardStore
    \/ ShardIndexStore
    \/ ShardCacheClear
    \/ ShardMetaStore

LookupNext ==
    \/ CheckHash
    \/ LoadShardGet
    \/ LoadShardFetch

\* a checkHash call that has returned (it was given no digest)
ReturnedCall == [NoCall EXCEPT !.pc = "done"]

\* checkAndUpdateAll has fetched a metadata descriptor { version, shardIndexUrl }
\* and is about to fetch the shard index; one checkHash call is still to come
InitShard ==
    /\ storage \in {EmptyStorage, PriorStorage}
    /\ localHashes = {}
    /\ shardCache = [p \in {} |-> {}]
    /\ shardPromises = [p \in {} |-> 0]
    /\ customHashes = <<>>
    /\ loads = <<>>
    /\ callers = [c \in Calls |-> IF c = 1 THEN NoCall ELSE ReturnedCall]
    /\ pkgPos = -1
    /\ \E m \in ShaMetas :
        /\ m.shardIndexUrl # ""
        /\ m.sha256 = ""
        /\ upd = [UpdIdle EXCEPT !.pc = "shard_index", !.meta = m]
    /\ ipMap = EmptyMap
    /\ ipLoaded = FALSE
    /\ ipLoading = 0
    /\ ipLoaders = <<NewLoader>>
    /\ ipCallers = [c \in IpCalls |-> NoIpCall]
    /\ InitScoreIdle

SpecShard == InitShard /\ [][ShardUpdNext \/ LookupNext]_vars

\* the same run of the updater on an installation without stored shards, next
\* to the lookups of every caller
InitReload ==
    /\ storage = EmptyStorage
    /\ localHashes = {}
    /\ shardCache = [p \in {} |-> {}]
    /\ shardPromises = [p \in {} |-> 0]
    /\ customHashes = <<>>
    /\ loads = <<>>
    /\ callers = [c \in Calls |-> NoCall]
    /\ pkgPos = -1
    /\ \E m \in ShaMetas :
        /\ m.shardIndexUrl # ""
        /\ m.sha256 = ""
        /\ upd = [UpdIdle EXCEPT !.pc = "shard_index", !.meta = m]
    /\ ipMap = EmptyMap
    /\ ipLoaded = FALSE
    /\ ipLoading = 0
    /\ ipLoaders = <<NewLoader>>
    /\ ipCallers = [c \in IpCalls |-> NoIpCall]
    /\ InitScoreIdle

SpecReload == InitReload /\ [][ShardUpdNext \/ LookupNext]_vars

\* the whole-dataset SHA256 block of checkAndUpdateAll (lines 97-124)
ShaWholeNext ==
    \/ FetchShaMetadata
    \/ ShaGetOld
    \/ ShaDownload
    \/ ShaStore
    \/ ShaReload

\* the storage of an installation that was only ever updated in whole-dataset
\* mode: no shard is stored
WholeStorage ==
    [PriorStorage EXCEPT !.sha256_shard = EmptyStorage.sha256_shard,
                         !.sha256_shard_meta = EmptyStorage.sha256_shard_meta]

\* an earlier run of checkAndUpdateAll in this session has applied the whole
\* dataset that storage holds (loadCachedRemote has put it into localHashes);
\* the alarm of schedulePeriodic has started the next run
InitRerun ==
    /\ storage \in {PriorStorage, WholeStorage}
    /\ localHashes = loadCachedRemote({}, PriorStorage.sha256_remote_text)
    /\ shardCache = [p \in {} |-> {}]
    /\ shardPromises = [p \in {} |-> 0]
    /\ customHashes = <<>>
    /\ loads = <<>>
    /\ callers = [c \in Calls |-> IF c = 1 THEN NoCall ELSE ReturnedCall]
    /\ pkgPos = -1
    /\ upd = [UpdIdle EXCEPT !.pc = "sha_meta"]
    /\ ipMap = EmptyMap
    /\ ipLoaded = FALSE
    /\ ipLoading = 0
    /\ ipLoaders = <<NewLoader>>
    /\ ipCallers = [c \in IpCalls |-> NoIpCall]
    /\ InitScoreIdle

SpecRerun == InitRerun /\ [][ShaWholeNext \/ LookupNext]_vars

\* the storage of an installation whose last update was in shard mode: the
\* descriptor { version, shardIndexUrl } is the last applied one
ShardModeStorage ==
    [PriorStorage EXCEPT
        !.sha256_remote_text = <<>>,
        !.sha256_remote_metadata =
            [version |-> 1, url |-> "u", sha256 |-> "", shardIndexUrl |-> "idx"],
        !.sha256_shardindex_metadata = 1,
        !.sha256_shards_index = <<"aa">>]

\* a run of checkAndUpdateAll of an installation that was updated before, in
\* whole-dataset mode or in shard mode
InitUpdated ==
    /\ storage \in {PriorStorage, ShardModeStorage}
    /\ localHashes = {}
    /\ shardCache = [p \in {} |-> {}]
    /\ shardPromises = [p \in {} |-> 0]
    /\ customHashes = <<>>
    /\ loads = <<>>
    /\ callers = [c \in Calls |-> NoCall]
    /\ pkgPos = -1
    /\ upd = UpdIdle
    /\ ipMap = EmptyMap
    /\ ipLoaded = FALSE
    /\ ipLoading = 0
    /\ ipLoaders = <<NewLoader>>
    /\ ipCallers = [c \in IpCalls |-> NoIpCall]
    /\ InitScoreIdle

SpecUpdated == InitUpdated /\ [][UpdNext]_vars

\* a call of the scorer, with its arguments drawn from the feature vectors and
\* reputation results above
InitScore ==
    /\ InitDb
    /\ scoreIn \in {ScoreInput(f, h) : f \in FeatureVectors \cup ExtractedVectors,
                                        h \in HashMatches}
    /\ scoreOut = NoScore
    /\ InitBgIdle

SpecScore == InitScore /\ [][ScoreNext]_vars

\* a call of the feature extractor on each script, under each script URL
InitExtract ==
    /\ InitDb
    /\ storage = EmptyStorage
    /\ scoreIn = ScoreInput(ZeroFeatures(KnownUrl), NullHashMatch)
    /\ scoreOut = NoScore
    /\ job = NoJob("main", "full")
    /\ checkedScripts = [u \in {} |-> CheckedEntry(NoAnalysis)]
    /\ mlExportData = <<>>
    /\ InitNavIdle
    /\ extraction \in {Extraction(script, url) : script \in Scripts, url \in Urls}
    /\ tempico = NoTempico

SpecExtract == InitExtract /\ [][ExtractNext]_vars

\* lookups in the reputation store once the background script has handed it a
\* custom list; no shard is loaded yet
InitStore ==
    /\ storage \in {EmptyStorage, PriorStorage}
    /\ localHashes = {}
    /\ shardCache = [p \in {} |-> {}]
    /\ shardPromises = [p \in {} |-> 0]
    /\ customHashes \in CustomLists
    /\ loads = <<>>
    /\ callers = [c \in Calls |-> NoCall]
    /\ pkgPos = -1
    /\ upd = UpdIdle
    /\ ipMap = EmptyMap
    /\ ipLoaded = FALSE
    /\ ipLoading = 0
    /\ ipLoaders = <<NewLoader>>
    /\ ipCallers = [c \in IpCalls |-> NoIpCall]
    /\ scoreIn = ScoreInput(ZeroFeatures(KnownUrl), NullHashMatch)
    /\ scoreOut = NoScore
    /\ InitBgIdle

StoreNext ==
    \/ CheckHash
    \/ LoadShardGet
    \/ LoadShardFetch
    \/ TempicoCheckHash
    \/ TempicoSettled

SpecStore == InitStore /\ [][StoreNext]_vars

\* one call of downloadAndAnalyzeScript, in each build
InitAnalyze ==
    /\ InitDb
    /\ scoreIn = ScoreInput(ZeroFeatures(KnownUrl), NullHashMatch)
    /\ scoreOut = NoScore
    /\ job \in {NoJob("main", "full"), NoJob("main", "stub"), NoJob("compat", "stub")}
    /\ checkedScripts = [u \in {} |-> CheckedEntry(NoAnalysis)]
    /\ mlExportData = <<>>
    /\ extraction = NoExtraction
    /\ tempico = NoTempico
    /\ InitNavIdle

SpecAnalyze == InitAnalyze /\ [][AnalyzeNext]_vars

\* the main build analyzes one script after the other; mlExportData is empty,
\* one short of full, or full
InitMl ==
    /\ InitDb
    /\ storage = EmptyStorage
    /\ scoreIn = ScoreInput(ZeroFeatures(KnownUrl), NullHashMatch)
    /\ scoreOut = NoScore
    /\ job = NoJob("main", "full")
    /\ checkedScripts = [u \in {} |-> CheckedEntry(NoAnalysis)]
    /\ mlExportData \in {MlFiller(n) : n \in {0, MaxMlRecords - 1, MaxMlRecords}}
    /\ extraction = NoExtraction
    /\ tempico = NoTempico
    /\ InitNavIdle

MlNext ==
    \/ DownloadAndAnalyzeScript
    \/ ScriptFetched
    \/ DigestDone
    \/ LookupDone
    \/ ExtractDone
    \/ Timeout
    \/ AnalyzeAnother

SpecMl == InitMl /\ [][MlNext]_vars

\* interception of navigations, with the whitelist and the switch as loaded
\* from the settings
InitNav ==
    /\ InitDb
    /\ storage = EmptyStorage
    /\ scoreIn = ScoreInput(ZeroFeatures(KnownUrl), NullHashMatch)
    /\ scoreOut = NoScore
    /\ job = NoJob("main", "full")
    /\ checkedScripts = [u \in {} |-> CheckedEntry(NoAnalysis)]
    /\ mlExportData = <<>>
    /\ extraction = NoExtraction
    /\ tempico = NoTempico
    /\ whitelist \in Whitelists
    /\ isEnabled \in BOOLEAN
    /\ clock = 0
    /\ approvedTabs = NoTabs
    /\ checks = <<>>
    /\ pendingChecks = NoTabs
    /\ fetches = <<>>
    /\ analyses = <<>>
    /\ response = NoResponse
    /\ gets = <<>>
    /\ polls = <<>>
    /\ timers = <<>>
    /\ blocking = NoTabs
    /\ submits = NoSubmits

SpecNav == InitNav /\ [][NavNext]_vars

\* the listener of the main build and of the compat build, protection enabled,
\* next to approvals from the blocking page, closed tabs and passing time
InitGate ==
    /\ InitDb
    /\ storage = EmptyStorage
    /\ scoreIn = ScoreInput(ZeroFeatures(KnownUrl), NullHashMatch)
    /\ scoreOut = NoScore
    /\ job \in {NoJob("main", "full"), NoJob("compat", "stub")}
    /\ checkedScripts = [u \in {} |-> CheckedEntry(NoAnalysis)]
    /\ mlExportData = <<>>
    /\ extraction = NoExtraction
    /\ tempico = NoTempico
    /\ InitNavIdle

GateNext ==
    \/ job.variant = "main" /\ OnBeforeRequest
    \/ OnBeforeRequestCompat
    \/ TabsGetCompat
    \/ ApproveTab
    \/ TabRemoved
    \/ Tick

SpecGate == InitGate /\ [][GateNext]_vars

\* the main build intercepts navigations; the page fetches and the analyses of
\* the scripts they list settle in any order
InitPage ==
    /\ InitDb
    /\ storage = EmptyStorage
    /\ scoreIn = ScoreInput(ZeroFeatures(KnownUrl), NullHashMatch)
    /\ scoreOut = NoScore
    /\ InitBgIdle

PageFlowNext ==
    \/ OnBeforeRequest
    \/ PageScriptsFetched
    \/ ScriptAnalyzed

SpecPage == InitPage /\ [][PageFlowNext]_vars

\* the simplified background script: the page fetch and browser.tabs.get of a
\* navigation settle in either order
SimpleNext ==
    \/ OnBeforeRequestSimple
    \/ TabsGetSimple
    \/ PageScriptsFetched
    \/ ScriptAnalyzed

SpecSimple == InitPage /\ [][SimpleNext]_vars

\* submitHash messages next to the lookups of checkHash
SubmitNext ==
    \/ SubmitHash
    \/ SubmitRead
    \/ SubmitStore
    \/ CustomHashesChanged
    \/ CheckHash
    \/ LoadShardGet
    \/ LoadShardFetch

SpecSubmit == Init /\ [][SubmitNext]_vars

\* the main build with the polls of blocking pages and the cleanup timers
StatusNext ==
    \/ OnBeforeRequest
    \/ PageScriptsFetched
    \/ ScriptAnalyzed
    \/ SendCheckStatus
    \/ CheckStatus
    \/ StatusReceived
    \/ CleanupFired

\* tab 1 was sent to the blocking page for a page with one script; the page
\* was fetched and the script analyzed, with any result
InitChecked ==
    /\ InitDb
    /\ storage = EmptyStorage
    /\ scoreIn = ScoreInput(ZeroFeatures(KnownUrl), NullHashMatch)
    /\ scoreOut = NoScore
    /\ job = NoJob("main", "full")
    /\ checkedScripts = [u \in {} |-> CheckedEntry(NoAnalysis)]
    /\ mlExportData = <<>>
    /\ extraction = NoExtraction
    /\ tempico = NoTempico
    /\ whitelist = {}
    /\ isEnabled = TRUE
    /\ clock = 0
    /\ approvedTabs = NoTabs
    /\ \E analysis \in AnalysisResults :
          checks = <<[url |-> PageUrl("https", "cdn.example.com"),
                      scripts |-> <<[url |-> "s1", status |-> analysis.status,
                                     ipMatches |-> analysis.ipMatches]>>]>>
    /\ pendingChecks = MapSet(NoTabs, 1, 1)
    /\ fetches = <<[tabId |-> 1, url |-> PageUrl("https", "cdn.example.com"),
                    done |-> TRUE]>>
    /\ analyses = <<[check |-> 1, url |-> "s1", done |-> TRUE]>>
    /\ response = Response("main_frame", PageUrl("https", "cdn.example.com"), 1, TRUE)
    /\ gets = <<>>
    /\ polls = <<>>
    /\ timers = <<>>
    /\ blocking = NoTabs
    /\ submits = NoSubmits

SpecCleanup == InitChecked /\ [][StatusNext]_vars

\* tab 1 was sent to the blocking page and its page fetch is in flight
InitRedirected ==
    /\ InitDb
    /\ storage = EmptyStorage
    /\ scoreIn = ScoreInput(ZeroFeatures(KnownUrl), NullHashMatch)
    /\ scoreOut = NoScore
    /\ job = NoJob("main", "full")
    /\ checkedScripts = [u \in {} |-> CheckedEntry(NoAnalysis)]
    /\ mlExportData = <<>>
    /\ extraction = NoExtraction
    /\ tempico = NoTempico
    /\ whitelist = {}
    /\ isEnabled = TRUE
    /\ clock = 0
    /\ approvedTabs = NoTabs
    /\ \E url \in {u \in PageUrls : ~IsInternal(u)} :
        /\ checks = <<NewCheck(url)>>
        /\ fetches = <<[tabId |-> 1, url |-> url, done |-> FALSE]>>
        /\ response = Response("main_frame", url, 1, TRUE)
    /\ pendingChecks = MapSet(NoTabs, 1, 1)
    /\ analyses = <<>>
    /\ gets = <<>>
    /\ polls = <<>>
    /\ timers = <<>>
    /\ blocking = NoTabs
    /\ submits = NoSubmits

\* one check from the page fetch to the cleanup, polled by the blocking page
PollNext ==
    \/ PageScriptsFetched
    \/ ScriptAnalyzed
    \/ SendCheckStatus
    \/ CheckStatus
    \/ StatusReceived
    \/ CleanupFired
    \/ TabRemoved

SpecStatus == InitRedirected /\ [][PollNext]_vars

\* the same check with the blocking page of tab 1 in the run
InitBlocking ==
    /\ InitDb
    /\ storage = EmptyStorage
    /\ scoreIn = ScoreInput(ZeroFeatures(KnownUrl), NullHashMatch)
    /\ scoreOut = NoScore
    /\ job = NoJob("main", "full")
    /\ checkedScripts = [u \in {} |-> CheckedEntry(NoAnalysis)]
    /\ mlExportData = <<>>
    /\ extraction = NoExtraction
    /\ tempico = NoTempico
    /\ whitelist = {}
    /\ isEnabled = TRUE
    /\ clock = 0
    /\ approvedTabs = NoTabs
    /\ \E url \in {u \in PageUrls : ~IsInternal(u)} :
        /\ checks = <<NewCheck(url)>>
        /\ fetches = <<[tabId |-> 1, url |-> url, done |-> FALSE]>>
        /\ response = Response("main_frame", url, 1, TRUE)
        /\ blocking = MapSet(NoTabs, 1, NewBlocking(url))
    /\ submits = NoSubmits
    /\ pendingChecks = MapSet(NoTabs, 1, 1)
    /\ analyses = <<>>
    /\ gets = <<>>
    /\ polls = <<>>
    /\ timers = <<>>

BlockingNext ==
    \/ PageScriptsFetched
    \/ ScriptAnalyzed
    \/ SendCheckStatus
    \/ CheckStatus
    \/ StatusReceived
    \/ CleanupFired
    \/ DelayFired
    \/ ContinueClicked
    \/ BackClicked
    \/ ApproveTab
    \/ TargetOpened

SpecBlocking == InitBlocking /\ [][BlockingNext]_vars

----------------------------------------------------------------------------
(* Claims about the dataset updater (SpecUpd) *)

\* C1 (as claimed): the updater stores a downloaded text in storage.local, and
\* hands it to HashDB or IpDB, only if the SHA-256 of the text equals the digest
\* declared for it, also when the metadata or the shard-index entry declares
\* no digest.
C1_StoredOnlyIfDigestEqual ==
    [][/\ storage'.sha256_remote_text # storage.sha256_remote_text
            => sha256Hex(storage'.sha256_remote_text) = ToLowerCase(upd.meta.sha256)
       /\ storage'.ip_remote_text # storage.ip_remote_text
            => sha256Hex(storage'.ip_remote_text) = ToLowerCase(upd.meta.sha256)
       /\ \A p \in Prefixes :
            storage'.sha256_shard[p] # storage.sha256_shard[p]
                => sha256Hex(storage'.sha256_shard[p]) = ToLowerCase(CurEntry.sha256)
       /\ localHashes' # localHashes
            => sha256Hex(storage.sha256_remote_text)
                    = ToLowerCase(storage.sha256_remote_metadata.sha256)
       /\ ipMap' # ipMap
            => sha256Hex(upd.dl.text) = ToLowerCase(upd.meta.sha256)
      ]_vars

C3_MismatchReportedFailed ==
    upd.pc = "done" =>
        /\ (\E k \in upd.mismatched : k[1] \in {"sha256", "shard"})
                => ~(upd.results.sha256.kind = "ok" /\ upd.results.sha256.updated)
        /\ <<"ip", "">> \in upd.mismatched
                => ~(upd.results.ip.kind = "ok" /\ upd.results.ip.updated)

\* the run is in its SHA256 block, in whole-dataset mode at the comparison of
\* line 111 or in shard mode, and the descriptor it fetched is the stored one
ShaUnchanged ==
    /\ upd.pc \in {"sha_get", "shard_index", "sh_get", "sh_dl", "sh_set", "sh_idx_set",
                   "sh_clear", "sh_meta_set"}
    /\ upd.meta = storage.sha256_remote_metadata

\* C15 (as claimed): checkAndUpdateAll fetches data only if the descriptor
\* differs from the last applied one.  When the fetched descriptor is the
\* stored one, the run downloads no dataset or shard, writes nothing to
\* storage and does not report updated: true, in whole-dataset mode and in
\* shard mode.
C15_UnchangedNoFetch ==
    [][/\ ShaUnchanged
            => /\ storage' = storage
               /\ upd'.pc \notin {"sha_dl", "sh_dl"}
               /\ upd'.pc = "ip_meta" => ~upd'.results.sha256.updated
       /\ (upd.pc = "ip_get" /\ upd.meta = storage.ip_remote_metadata)
            => /\ upd' = IpEnd(upd, UpdatedResult(FALSE))
               /\ storage' = storage
      ]_vars

----------------------------------------------------------------------------
(* Claims about HashDB (SpecHash) *)

\* the loads of a prefix that have not settled
InFlight(prefix) ==
    {id \in 1..Len(loads) : loads[id].prefix = prefix /\ loads[id].pc \in {"get", "fetch"}}

\* C4: shard coalescing.  At most one load per prefix is in flight; every
\* checkHash that waits for a prefix waits for that one load; a load does one
\* storage read and at most one fetch; and a caller that waited is answered
\* from the set its load produced.
C4_ShardCoalescing ==
    /\ \A id \in 1..Len(loads) :
        /\ Cardinality(InFlight(loads[id].prefix)) <= 1
        /\ loads[id].reads = 1
        /\ loads[id].fetches <= 1
    /\ \A c \in Calls :
        callers[c].pc = "await" =>
            InFlight(Slice2(callers[c].clean)) = {callers[c].load}
    /\ \A c \in Calls :
        (callers[c].pc = "done" /\ callers[c].load # 0) =>
            /\ loads[callers[c].load].pc \in {"done", "rejected"}
            /\ loads[callers[c].load].prefix = Slice2(callers[c].clean)
            /\ callers[c].result.source = "shard"
                    <=> callers[c].clean \in loads[callers[c].load].set

\* C4 witness: two calls for digests of one prefix were answered, as found in
\* the shard, by the only load that was ever started
C4_Witness ==
    /\ Len(loads) = 1
    /\ loads[1].pc = "done"
    /\ \E c1, c2 \in Calls :
        /\ c1 # c2
        /\ callers[c1].pc = "done" /\ callers[c1].load = 1
        /\ callers[c2].pc = "done" /\ callers[c2].load = 1
        /\ callers[c1].result.source = "shard"
        /\ callers[c2].result.source = "shard"

\* C5 (as claimed): checkHash consults the custom entries first.  A call for
\* a digest that is among the custom entries returns at once with source
\* 'custom', whatever the other tiers hold, and starts no shard load.
C5_CustomFirst ==
    [][\A c \in Calls :
        (/\ callers[c].pc = "idle"
         /\ callers'[c].pc # "idle"
         /\ \E i \in 1..Len(customHashes) : customHashes[i].hash = callers'[c].clean)
        => /\ callers'[c].pc = "done"
           /\ callers'[c].result.source = "custom"
           /\ loads' = loads
      ]_vars

\* C6: a call for a lowercase hex digest that is among the custom entries
\* when the call returns is answered found, whatever the other tiers hold
\* and also when the shard load was rejected.
C6_CustomFound ==
    [][\A c \in Calls :
        (/\ callers[c].pc # "done"
         /\ callers'[c].pc = "done"
         /\ IsHex64(callers'[c].clean)
         /\ \E i \in 1..Len(customHashes) : customHashes[i].hash = callers'[c].clean)
        => callers'[c].result.found
      ]_vars

\* C6 witness: a digest that is in no packaged or cached tier, and whose shard
\* load was rejected, was answered from the custom entries
C6_Witness ==
    \E c \in Calls :
        /\ callers[c].pc = "done"
        /\ callers[c].load # 0
        /\ loads[callers[c].load].pc = "rejected"
        /\ callers[c].clean \notin localHashes
        /\ callers[c].result.found
        /\ callers[c].result.source = "custom"

\* a load of the prefix has settled and found no shard: nothing stored, and the
\* packaged shard missing or its fetch failed
NoShardFound(prefix) ==
    \E id \in 1..Len(loads) :
        /\ loads[id].prefix = prefix
        /\ loads[id].pc = "done"
        /\ loads[id].fetches = 1
        /\ loads[id].set = {}

\* a load of the prefix has settled with the contents of a shard
ShardLoaded(prefix) ==
    \E id \in 1..Len(loads) :
        /\ loads[id].prefix = prefix
        /\ loads[id].pc = "done"
        /\ loads[id].set # {}

\* C13 (as claimed): once a shard of a prefix has been loaded its contents are
\* retained.  A later checkHash for a digest of that prefix returns without
\* another storage read or fetch for the prefix.
C13_ShardRetained ==
    [][\A c \in Calls :
        (/\ callers[c].pc = "idle"
         /\ callers'[c].pc # "idle"
         /\ ShardLoaded(ToLowerCase(Slice2(callers'[c].clean))))
        => /\ loads' = loads
           /\ callers'[c].pc = "done"
      ]_vars

\* C14 (as claimed): a negative shard result is cached.  After a load of a
\* prefix found no shard, a later checkHash for a digest of that prefix starts
\* no other load.
C14_NegativeCached ==
    [][\A c \in Calls :
        (/\ callers[c].pc = "idle"
         /\ callers'[c].pc # "idle"
         /\ NoShardFound(ToLowerCase(Slice2(callers'[c].clean))))
        => loads' = loads
      ]_vars

\* the sets a shard text, a packaged shard or no shard at all parse to
WholeShardSets(prefix) ==
    {ParseHashes(t) : t \in ShaPayloads} \cup {ParseHashes(PkgShard(prefix)), {}}

\* C11: a checkHash that runs next to downloadAndCacheShards evaluates its digest
\* against the set parsed from one whole shard text (the old one, the new one,
\* or the packaged shard), never against a mixture of two texts, and the
\* stored shard text is at every moment the text its stored metadata names.
C11_ShardOldOrNew ==
    /\ \A id \in 1..Len(loads) :
        loads[id].pc = "done" => loads[id].set \in WholeShardSets(loads[id].prefix)
    /\ \A c \in Calls :
        (callers[c].pc = "done" /\ callers[c].load # 0) =>
            (callers[c].result.source = "shard"
                <=> /\ loads[callers[c].load].pc = "done"
                    /\ callers[c].clean \in loads[callers[c].load].set)
    /\ \A p \in Prefixes :
        storage.sha256_shard[p] # <<>> =>
            storage.sha256_shard_meta[p].sha256 = sha256Hex(storage.sha256_shard[p])

\* C11 witness: while downloadAndCacheShards was still running, a checkHash was
\* answered from the shard text that run had stored in place of the old one
C11_Witness ==
    /\ upd.pc \in {"sh_get", "sh_dl", "sh_set", "sh_idx_set", "sh_clear"}
    /\ storage.sha256_shard["aa"] = ShaText2
    /\ \E c \in Calls :
        /\ callers[c].pc = "done"
        /\ callers[c].load # 0
        /\ loads[callers[c].load].set = ParseHashes(ShaText2)
        /\ callers[c].result.source = "shard"

\* the digest is in a tier other than the cached bulk dataset
InOtherTier(h) ==
    \/ \E i \in 1..Len(PkgShaFiles) : h \in ParseHashes(PkgShaFiles[i])
    \/ \E p \in Prefixes : h \in ParseHashes(storage.sha256_shard[p])
    \/ \E p \in Prefixes : h \in ParseHashes(PkgShard(p))
    \/ \E i \in 1..Len(customHashes) : customHashes[i].hash = h

\* the run has left its SHA256 block having replaced the cached bulk dataset
\* (loadCachedRemote included), and h was in the old dataset and is not in the
\* new one
Superseded(h) ==
    /\ upd.pc = "ip_meta"
    /\ upd.results.sha256.kind = "ok"
    /\ upd.results.sha256.updated
    /\ upd.results.sha256.mode = ""
    /\ h \in ParseHashes(PriorStorage.sha256_remote_text)
    /\ h \notin ParseHashes(storage.sha256_remote_text)

\* C12 (as claimed): after a successful whole-dataset update the new dataset
\* supersedes the old one.  A checkHash called for a digest that was in the
\* old cached dataset, is not in the new one and is in no other tier does not
\* return found.
C12_NewSupersedesOld ==
    [][\A c \in Calls :
        (/\ callers[c].pc = "idle"
         /\ callers'[c].pc = "done"
         /\ Superseded(callers'[c].clean)
         /\ ~InOtherTier(callers'[c].clean))
        => ~callers'[c].result.found
      ]_vars

----------------------------------------------------------------------------
(* Claims about the scorer (SpecScore) *)

\* C7 (as claimed): the score and the action that calculateScore returns agree
\* with the documented thresholds: a returned score below 40 comes with
\* 'allow', one from 40 to 69 with 'suspect', one of 70 or more with 'block'.
C7_ScoreActionAgree ==
    scoreOut.done =>
        /\ scoreOut.score < 40 => scoreOut.action = "allow"
        /\ (40 <= scoreOut.score /\ scoreOut.score < 70) => scoreOut.action = "suspect"
        /\ scoreOut.score >= 70 => scoreOut.action = "block"

\* C8: the score that calculateScore returns is within 0..100.
C8_ScoreInRange ==
    scoreOut.done => scoreOut.score \in 0..100

\* C8 witness: the contributions add up to more than 100 and the returned
\* score is 100
C8_Witness ==
    /\ scoreOut.done
    /\ scoreOut.score = 100
    /\ scoreOut.breakdown.hashMatch + scoreOut.breakdown.ipMatches
            + scoreOut.breakdown.unknownDomain + scoreOut.breakdown.dangerousFunctions > 100

\* every heuristic feature is at zero and no blacklisted IP was contacted
HashMatchAlone ==
    /\ ~scoreIn.hashMatch.isNull
    /\ scoreIn.hashMatch.found
    /\ scoreIn.features = ZeroFeatures(scoreIn.features.url)

\* C9: a hash match alone, with every heuristic feature at zero and no
\* blacklisted IP, never yields the action 'block', whatever the URL of the
\* script.
C9_HashAloneNoBlock ==
    (scoreOut.done /\ HashMatchAlone) => scoreOut.action # "block"

\* C9 witness: a hash match alone for a script of an unknown domain, which adds
\* the unknown domain penalty, was scored 50 and answered 'suspect'
C9_Witness ==
    /\ scoreOut.done
    /\ HashMatchAlone
    /\ scoreOut.breakdown.unknownDomain > 0
    /\ scoreOut.score = 50
    /\ scoreOut.action = "suspect"

----------------------------------------------------------------------------
(* Claims about IpDB (SpecIp) *)

\* the addresses of one dataset
IpKeys(text) == DOMAIN parseCsv(EmptyMap, text)

\* the addresses of the old dataset: the text cached by an earlier session and
\* the packaged files
OldIpKeys ==
    IpKeys(PriorStorage.ip_remote_text) \cup IpKeys(PkgIp1) \cup IpKeys(PkgIp2)

\* C10 (as claimed): no lookup observes a mixed IP dataset.  At every moment
\* IpDB.ipMap holds entries of the old dataset only (the text cached by an
\* earlier session or the packaged files), or entries of the verified text the
\* updater has stored and installs with loadFromText only.
C10_NoMixedIpDataset ==
    \/ DOMAIN ipMap \subseteq OldIpKeys
    \/ DOMAIN ipMap \subseteq IpKeys(storage.ip_remote_text)

----------------------------------------------------------------------------
(* Claims about the analysis of a script (SpecAnalyze) *)

\* C16: when the 10-second timer fires before analyzeScript has settled, or
\* analyzeScript rejects, downloadAndAnalyzeScript returns a result with status
\* 'error' and no score, and the entry of checkedScripts for the script URL
\* has status 'error' -- also after the abandoned analysis has finished.
C16_TimeoutOrRejectGivesError ==
    job.race \in {"timeout", "rejected"} =>
        /\ job.returned
        /\ job.result.status = "error"
        /\ ~job.result.score.done
        /\ job.url \in DOMAIN checkedScripts
        /\ checkedScripts[job.url].status = "error"
        /\ ~checkedScripts[job.url].score.done

\* the timer fired first, and the abandoned analysis has since scored the script
C16_Witness ==
    /\ job.race = "timeout"
    /\ job.pc = "resolved"
    /\ job.variant = "main"
    /\ Len(mlExportData) = 1

\* C17: when the digest was computed and feature extraction returned, the
\* status analyzeScript returns follows the action of the score it returns and
\* nothing else: 'malware' exactly for 'block', 'suspect' exactly for 'suspect',
\* 'clean' exactly for 'allow'.
C17_StatusFollowsAction ==
    (job.pc = "resolved" /\ job.variant = "main" /\ job.analysis.sha256 # "") =>
        /\ job.analysis.score.done
        /\ job.analysis.status = "malware" <=> job.analysis.score.action = "block"
        /\ job.analysis.status = "suspect" <=> job.analysis.score.action = "suspect"
        /\ job.analysis.status = "clean" <=> job.analysis.score.action = "allow"

\* a script with a reputation match whose score only reaches 'suspect'
C17_Witness ==
    /\ job.pc = "resolved"
    /\ job.variant = "main"
    /\ job.analysis.hashResult.found
    /\ job.analysis.score.action = "suspect"
    /\ job.analysis.status = "suspect"

\* the analysis returned a reputation match and nothing else: no blacklisted
\* IP and, where the script was scored, no other contribution to the score
OnlyHashMatched(a) ==
    /\ a.hashResult.found
    /\ a.ipMatches = <<>>
    /\ a.score.done =>
          /\ a.score.breakdown.hashMatch > 0
          /\ \A k \in {"dangerousFunctions", "obfuscation", "urls", "entropy", "patterns",
                       "complexity", "domains", "unknownDomain", "ipMatches"} :
                a.score.breakdown[k] = 0

\* C18: a script whose only signal is a reputation (hash) match is not given
\* status 'malware' by the analysis entry point of any build.
C18_HashAloneNotMalware ==
    (job.pc = "resolved" /\ OnlyHashMatched(job.analysis)) =>
        job.analysis.status # "malware"

----------------------------------------------------------------------------
(* Claims about the interception of navigations (SpecNav) *)

\* C19: a main-frame navigation to a URL whose domain is in the whitelist is
\* allowed immediately: the onBeforeRequest listener answers it without a
\* redirect to the blocking page and registers no pending check for it.
C19_WhitelistedAllowed ==
    (response.type = "main_frame" /\ response.whitelisted) =>
        /\ ~response.redirect
        /\ ~response.registered

----------------------------------------------------------------------------
(* Claims about the trust discount of the scorer (SpecScore) *)

\* the part of a result that comes from neither the reputation match nor the
\* IP match: the heuristic contributions and the unknown-domain penalty
HeuristicPart(out) ==
    out.breakdown.dangerousFunctions + out.breakdown.obfuscation + out.breakdown.urls
    + out.breakdown.entropy + out.breakdown.patterns + out.breakdown.complexity
    + out.breakdown.domains + out.breakdown.unknownDomain

\* the same feature vector, coming from another origin
FromOrigin(features, url) == [features EXCEPT !.url = url]

\* C20: for a fixed feature vector and reputation result, the part of the score
\* that comes from neither the reputation match nor the IP match is, for a
\* trusted origin, at most its value for an untrusted origin, and strictly
\* smaller when the value for the untrusted origin is not zero.
C20_TrustDiscount ==
    scoreOut.done =>
        \A url \in Urls :
            LET other == calculateScore(FromOrigin(scoreIn.features, url),
                                        scoreIn.hashMatch)
                trusted == IF scoreOut.isTrusted THEN scoreOut ELSE other
                untrusted == IF scoreOut.isTrusted THEN other ELSE scoreOut
            IN  (scoreOut.isTrusted # other.isTrusted) =>
                    /\ HeuristicPart(trusted) <= HeuristicPart(untrusted)
                    /\ HeuristicPart(untrusted) > 0 =>
                          HeuristicPart(trusted) < HeuristicPart(untrusted)

\* a script from a trusted CDN whose heuristics still contribute to the score
C20_Witness ==
    /\ scoreOut.done
    /\ scoreOut.isTrusted
    /\ HeuristicPart(scoreOut) > 0
    /\ scoreOut.breakdown.hashMatch > 0
    /\ scoreOut.breakdown.ipMatches > 0

----------------------------------------------------------------------------
(* Claims about the monotonicity and the reasons of the scorer (SpecScore) *)

\* by how much a count is raised
MaxIncrease == 2

DangerousCalls ==
    {"eval", "Function", "setTimeout_string", "setInterval_string", "document_write",
     "atob", "btoa", "unescape", "decodeURIComponent", "innerHTML", "outerHTML"}

\* the feature vector with one dangerous-call count raised by d
Raised(features, call, d) == [features EXCEPT !.dangerousFunctions[call] = @ + d]

\* C21: raising any single dangerous-call count, every other input held fixed,
\* never lowers the score Scorer.calculateScore returns.
C21_DangerousMonotone ==
    scoreOut.done =>
        \A call \in DangerousCalls, d \in 1..MaxIncrease :
            calculateScore(Raised(scoreIn.features, call, d), scoreIn.hashMatch).score
                >= scoreOut.score

\* a scored vector with dangerous calls for which one more call raises the score
C21_Witness ==
    /\ scoreOut.done
    /\ scoreOut.breakdown.dangerousFunctions > 0
    /\ \E call \in DangerousCalls :
          calculateScore(Raised(scoreIn.features, call, 1), scoreIn.hashMatch).score
              > scoreOut.score

\* the category of a reason, by its place in the fixed order
ReasonRank(tag) ==
    CASE tag = "hash" -> 1
      [] tag = "ip" -> 2
      [] tag = "trusted" -> 3
      [] tag = "unknownDomain" -> 4
      [] tag \in {"eval", "Function", "setTimeout"} -> 5
      [] tag \in {"obfuscated", "hexStrings", "base64Strings"} -> 6
      [] tag = "external" -> 7
      [] tag = "entropy" -> 8
      [] tag \in {"dynamicPropertyAccess", "webSocket", "cookie"} -> 9
      [] tag = "domains" -> 10

\* the gate of a category, on the inputs and the breakdown of a result
ReasonGate(rank, in, out) ==
    CASE rank = 1 -> ~in.hashMatch.isNull /\ in.hashMatch.found
      [] rank = 2 -> Len(BlacklistedIps(in.features)) > 0
      [] rank = 3 -> isTrustedSource(in.features.url)
      [] rank = 4 -> out.breakdown.unknownDomain > 0
      [] rank = 5 -> out.breakdown.dangerousFunctions > 15
      [] rank = 6 -> out.breakdown.obfuscation > 10
      [] rank = 7 -> out.breakdown.urls > 6
      [] rank = 8 -> out.breakdown.entropy > 8
      [] rank = 9 -> out.breakdown.patterns > 8
      [] rank = 10 -> out.breakdown.domains > 8

----------------------------------------------------------------------------
(* Claims about the feature extractor (SpecExtract) *)

\* the vector came from getFallbackFeatures
IsFallback(result) == result.parseError # "" \/ result.extractionError # ""

\* the fields of the vector and of each of its nested objects
Shape(features) ==
    [top |-> DOMAIN features,
     nested |-> [f \in {"dangerousFunctions", "urlAnalysis", "obfuscation", "complexity",
                        "stringAnalysis", "suspiciousPatterns", "networkMatches"}
                      \cap DOMAIN features |-> DOMAIN features[f]]]

\* C23: the vector extractFeatures returns for a script that does not parse has
\* exactly the fields, at the top level and inside every nested object, of the
\* vector it builds from the syntax tree
C23_FallbackSameFields ==
    (extraction.done /\ IsFallback(extraction.result))
        => Shape(extraction.result.features)
               = Shape(TreeFeatures(extraction.script, extraction.url, {}))

\* C30: in every vector extractFeatures returns, from the syntax tree and from
\* the fallback, complexity.cyclomaticComplexity is 1 + conditionals + loops
C30_CyclomaticFormula ==
    extraction.done
        => LET complexity == extraction.result.features.complexity
           IN  complexity.cyclomaticComplexity
                   = 1 + complexity.conditionals + complexity.loops

----------------------------------------------------------------------------
(* Claims about the analysis of scripts that do not parse (SpecAnalyze) *)

\* analyzeScript has its featureResult, for a text every parse strategy rejects
ParseFailed(j) == j.featureResult # NoFeatureResult /\ ParsedBy(j.content) = 0

\* C24: when all three parse strategies fail, extractFeatures resolves with
\* success, the fallback features and the message of the last parse error, and
\* analyzeScript returns the score of those features, not status 'error'
C24_ParseFailureScored ==
    ParseFailed(job)
        => /\ job.featureResult.success
           /\ job.featureResult.features = getFallbackFeatures(job.content, job.url)
           /\ job.featureResult.parseError = job.content.errors[3]
           /\ job.pc = "resolved"
           /\ job.analysis.status \in {"clean", "suspect", "malware"}
           /\ job.analysis.score
                  = calculateScore(getFallbackFeatures(job.content, job.url),
                                   job.hashResult)

C24_Witness ==
    /\ ParseFailed(job)
    /\ job.content.calls.eval > 0
    /\ job.analysis.score.done
    /\ job.analysis.score.score > 0

----------------------------------------------------------------------------
(* Claims about failures of the reputation store (SpecStore) *)

\* the load ended without a shard: the storage read was rejected, or the fetch
\* of the packaged shard failed, was not OK, or gave no hash
LoadFailed(load) ==
    load.pc = "rejected" \/ (load.pc = "done" /\ load.fetches = 1 /\ load.set = {})

\* the remote lookup ended on an error or on a body parseResponse throws on
TempicoFailed(t) ==
    t.pc = "done" /\ (t.outcome \in {"network", "http", "json"}
                      \/ (t.outcome = "body" /\ ParseThrows(t.data)))

\* C25: when the storage read of a shard is rejected or its fetch fails, every
\* checkHash waiting for it still returns, with the answer of the custom list;
\* no checkHash ever ends rejected; and a remote lookup that fails or gets a
\* malformed body returns found: false
C25_StoreFailureIsNotFound ==
    [][/\ \A c \in Calls :
            /\ callers'[c].pc \in {"idle", "await", "done"}
            /\ (callers[c].pc = "await" /\ loads'[callers[c].load].pc # loads[callers[c].load].pc
                /\ LoadFailed(loads'[callers[c].load]))
                   => /\ callers'[c].pc = "done"
                      /\ callers'[c].result = CheckCustom(customHashes, callers[c].clean)
       /\ TempicoFailed(tempico')
            => ~tempico'.result.found /\ tempico'.result.source = "tempico"]_vars

C25_Witness ==
    /\ \E c \in Calls :
          /\ callers[c].pc = "done"
          /\ callers[c].load # 0
          /\ loads[callers[c].load].pc = "rejected"
          /\ callers[c].result.found
          /\ callers[c].result.source = "custom"
    /\ TempicoFailed(tempico)
    /\ tempico.outcome = "body"

----------------------------------------------------------------------------
(* Claims about trusted origins and about the extracted vectors (SpecScore) *)

\* the scorer was called for a trusted origin without a reputation match and
\* without a blacklisted IP
TrustedOnly(in) ==
    /\ isTrustedSource(in.features.url)
    /\ HashScore(in.hashMatch) = 0
    /\ BlacklistedIps(in.features) = <<>>

\* C26: for a script of a trusted origin with no reputation match and no
\* blacklisted IP the score is under 40 and the action is allow, whatever the
\* feature vector
C26_TrustedAllowed ==
    (scoreOut.done /\ TrustedOnly(scoreIn))
        => scoreOut.score < 40 /\ scoreOut.action = "allow"

\* every heuristic category at its cap
C26_Witness ==
    /\ scoreOut.done
    /\ TrustedOnly(scoreIn)
    /\ scoreOut.score = 38
    /\ scoreDangerousFunctions(scoreIn.features.dangerousFunctions) = 3000
    /\ scoreDomains(scoreIn.features.urlAnalysis) = 2000

\* the scorer was called with the vector of eval(atob('ZnVuY3Rpb24oKXt9')); for
\* an origin that is not trusted and without a reputation match
EvalAtobCase(in) ==
    /\ in.features = TreeFeatures(EvalAtobScript, in.features.url, {})
    /\ ~isTrustedSource(in.features.url)
    /\ HashScore(in.hashMatch) = 0

\* C27: the script eval(atob('ZnVuY3Rpb24oKXt9')); from an untrusted origin and
\* without a reputation match gets a nonzero dangerous-call contribution, a
\* nonzero obfuscation contribution, and the action suspect or block
C27_EvalAtobFlagged ==
    (scoreOut.done /\ EvalAtobCase(scoreIn))
        => /\ scoreOut.breakdown.dangerousFunctions > 0
           /\ scoreOut.breakdown.obfuscation > 0
           /\ scoreOut.action \in {"suspect", "block"}

----------------------------------------------------------------------------
(* Claims about the order of the steps of analyzeScript (SpecAnalyze) *)

\* HashDB.checkHash has been called
LookupBegun(j) == j.pc \in {"hash", "extract"} \/ j.hashResult # NullHashMatch

\* FeatureExtractor.extractFeatures has been called
ExtractionBegun(j) == j.pc = "extract" \/ j.featureResult # NoFeatureResult

\* C28: once the digest is computed analyzeScript begins the reputation lookup
\* and the feature extraction together, so that the extraction is under way
\* while the lookup is still pending; the script is scored only after both
C28_LookupAndExtractionConcurrent ==
    [][/\ (job.variant = "main" /\ job.pc = "sha" /\ job'.pc # "sha" /\ job'.sha256 # "")
            => LookupBegun(job') /\ ExtractionBegun(job')
       /\ (job.variant = "main" /\ ~job.analysis.score.done /\ job'.analysis.score.done)
            => job.hashResult # NullHashMatch /\ job'.featureResult # NoFeatureResult]_vars

----------------------------------------------------------------------------
(* Claims about the incremental update of the shards (SpecShard) *)

\* the digest the entry declares and the digest recorded at the last download
\* of its shard are both present and are the same hex digest
SameDigest(entry, oldMeta) ==
    entry.sha256 # "" /\ oldMeta.sha256 # "" /\ ToLowerCase(entry.sha256) = oldMeta.sha256

OtherDigest(entry, oldMeta) ==
    entry.sha256 # "" /\ oldMeta.sha256 # "" /\ ToLowerCase(entry.sha256) # oldMeta.sha256

\* C29: when downloadAndCacheShards has read the metadata of the shard of an
\* entry, it goes to the next entry without a download and without a write if
\* the entry declares the recorded digest, and it starts the download if the
\* entry declares another digest
C29_UnchangedShardSkipped ==
    [][(upd.pc = "sh_get" /\ upd' # upd)
            => LET oldMeta == storage.sha256_shard_meta[CurPrefix]
               IN  /\ SameDigest(CurEntry, oldMeta)
                        => upd'.pc # "sh_dl" /\ upd'.i > upd.i /\ storage' = storage
                   /\ OtherDigest(CurEntry, oldMeta) => upd'.pc = "sh_dl"]_vars

\* the first entry was skipped, the second one, of the same shard with another
\* digest, is being downloaded
C29_Witness ==
    /\ upd.pc = "sh_dl"
    /\ upd.i = 2
    /\ storage = PriorStorage
    /\ SameDigest(upd.shardIndex.shards[1], storage.sha256_shard_meta["aa"])
    /\ ToLowerCase(upd.shardIndex.shards[1].prefix) = "aa"
    /\ CurPrefix = "aa"
    /\ OtherDigest(CurEntry, storage.sha256_shard_meta["aa"])

----------------------------------------------------------------------------
(* Claims about the ML export buffer (SpecMl) *)

\* the last n elements of seq
LastN(seq, n) == IF Len(seq) <= n THEN seq ELSE SubSeq(seq, Len(seq) - n + 1, Len(seq))

\* analyzeScript has scored the script in this step
ScoredNow(j, k) == ~j.analysis.score.done /\ k.analysis.score.done

\* C31: mlExportData never holds more than 100 records; it changes only when an
\* analysis is scored, and then the record of that analysis is added at the
\* end and, if that makes 101, the oldest record is dropped
C31_MlBufferLast100 ==
    [][/\ Len(mlExportData') <= 100
       /\ mlExportData' # mlExportData => ScoredNow(job, job')
       /\ ScoredNow(job, job')
            => mlExportData' = LastN(Append(mlExportData,
                                            [url |-> job.url,
                                             score |-> job'.analysis.score.score]), 100)]_vars

\* a record was pushed into the full buffer: the oldest one is gone
C31_Witness ==
    /\ Len(mlExportData) = 100
    /\ mlExportData[1] = MlFiller(2)[2]
    /\ mlExportData[99] = MlFiller(100)[100]
    /\ mlExportData[100].url \in ScriptUrls

----------------------------------------------------------------------------
(* Claims about the interception of navigations (SpecGate) *)

\* the tab holds an approval for exactly this URL
ApprovalFor(tabId, url) ==
    /\ tabId \in DOMAIN approvedTabs
    /\ approvedTabs[tabId].url = url

\* ... issued less than 10 seconds ago
FreshFor(tabId, url) ==
    /\ ApprovalFor(tabId, url)
    /\ clock - approvedTabs[tabId].timestamp < ApprovalTicks

\* the listener has answered a main-frame request to a URL that is not internal
Answered(r) ==
    /\ r.type = "main_frame"
    /\ r.url.scheme \notin {"about", "moz-extension"}

----------------------------------------------------------------------------
(* Claims about the pending checks (SpecPage) *)

\* the URLs of a script list
UrlsOf(scripts) == [i \in 1..Len(scripts) |-> scripts[i].url]

\* C34: the script list of every tab's pending check is one that the page of
\* the URL recorded in that check can yield
C34_ScriptsOfRecordedPage ==
    \A tabId \in DOMAIN pendingChecks :
        LET pending == checks[pendingChecks[tabId]]
        IN  UrlsOf(pending.scripts) \in ScriptLists(pending.url)

----------------------------------------------------------------------------
(* Claims about the simplified background script (SpecSimple) *)

\* C35: no page fetch has delivered its script list while the listener call
\* that started it still waits for browser.tabs.get, that is, before the
\* pending check of its navigation is set
C35_EntryBeforeScripts ==
    \A g \in 1..Len(gets) : ~fetches[gets[g].fetch].done

----------------------------------------------------------------------------
(* Claims about checkStatus and its cleanup timer (SpecCleanup, SpecStatus) *)

\* C36: when a cleanup timer fires, the entry its tab has then is removed only
\* if it is the entry that was reported complete when the timer was armed; an
\* entry registered for the tab since then stays
C36_CleanupRemovesOwnEntry ==
    [][Len(timers') < Len(timers)
        => LET timer == timers[1]
           IN  (/\ timer.tabId \in DOMAIN pendingChecks
                /\ pendingChecks[timer.tabId] # timer.check)
                    => pendingChecks' = pendingChecks]_vars

\* C38: the handler answers 'no_check' when the tab has no entry, 'complete'
\* exactly when the entry has at least one script and none of them is pending,
\* and 'checking' for every other entry, one without scripts included
C38_StatusReported ==
    [][\A m \in 1..Len(polls) :
          (Len(polls') = Len(polls) /\ polls[m].status = "" /\ polls'[m].status # "")
            => LET tabId == polls[m].tabId
                   status == polls'[m].status
               IN  IF tabId \notin DOMAIN pendingChecks
                   THEN status = "no_check"
                   ELSE LET scripts == checks[pendingChecks[tabId]].scripts
                            done == {i \in 1..Len(scripts) : scripts[i].status # "pending"}
                        IN  /\ status \in {"complete", "checking"}
                            /\ status = "complete"
                                 <=> (Len(scripts) >= 1 /\ Cardinality(done) = Len(scripts))
                            /\ polls'[m].scripts = scripts]_vars

\* a poll was answered 'complete' and the cleanup timer is armed
C38_Witness ==
    /\ \E m \in 1..Len(polls) : polls[m].status = "complete"
    /\ timers # <<>>

----------------------------------------------------------------------------
(* Claims about the blocking page (SpecBlocking) *)

\* C33: a blocking page that shows a threat count above zero, as set by a poll
\* answer with a script of status 'malware' or with IP matches, is never left
\* for the target by the poll callback or by a timer, only by a click
C33_NoAutomaticOpenAfterThreat ==
    \A tabId \in DOMAIN blocking :
        (blocking[tabId].riskScore > 0 /\ blocking[tabId].left \notin {"", "back"})
            => blocking[tabId].left = "click"

----------------------------------------------------------------------------
(* Claims about submitted hashes (SpecSubmit) *)

\* the hashes of a custom list
HashesOf(list) == {list[i].hash : i \in 1..Len(list)}

\* C37: the hash of every submitHash message that was acknowledged with
\* success is in the stored custom list, and in HashDB.customHashes once the
\* change events are delivered
C37_AckedHashesKept ==
    \A h \in 1..Len(submits.handlers) :
        submits.handlers[h].pc = "acked"
            => /\ submits.handlers[h].hash \in HashesOf(storage.customHashes)
               /\ submits.changes = <<>>
                    => submits.handlers[h].hash \in HashesOf(customHashes)

----------------------------------------------------------------------------
(* Claims about the shard loads (SpecStore, SpecShard) *)

\* the load is in flight: it waits for its storage read or for its fetch
Unsettled(load) == load.pc \in {"get", "fetch"}

\* C39: shardPromises has an entry for a prefix exactly while a load of that
\* prefix is in flight, and the entry is that load; a load that has settled,
\* resolved or rejected, has left no entry
C39_PromiseOnlyInFlight ==
    /\ \A prefix \in DOMAIN shardPromises :
          /\ shardPromises[prefix] \in 1..Len(loads)
          /\ loads[shardPromises[prefix]].prefix = prefix
          /\ Unsettled(loads[shardPromises[prefix]])
    /\ \A id \in 1..Len(loads) :
          Unsettled(loads[id])
            <=> (/\ loads[id].prefix \in DOMAIN shardPromises
                 /\ shardPromises[loads[id].prefix] = id)

\* a load was rejected and a later load of the same prefix has started and
\* resolved; no entry is left
C39_Witness ==
    /\ \E i, j \in 1..Len(loads) :
          /\ i < j
          /\ loads[i].prefix = loads[j].prefix
          /\ loads[i].pc = "rejected"
          /\ loads[j].pc = "done"
    /\ DOMAIN shardPromises = {}

\* downloadAndCacheShards has returned
ShardsCached ==
    upd.pc \notin {"shard_index", "sh_get", "sh_dl", "sh_set", "sh_idx_set", "sh_clear"}

\* the load has had its storage read answered with no text, while the storage
\* now holds a shard for its prefix: the read preceded the update's write
ReadBeforeUpdate(load) ==
    /\ load.pc = "fetch"
    /\ StoredShard(load.prefix) # <<>>

\* C40: a checkHash call that begins once downloadAndCacheShards has returned
\* does not wait for a load whose storage read preceded the update of its
\* prefix, so it is not answered from what that load goes on to yield
C40_NoAnswerFromOlderShard ==
    [][\A c \in Calls :
          (/\ ShardsCached
           /\ callers[c].pc = "idle"
           /\ callers'[c].pc = "await")
            => ~ReadBeforeUpdate(loads'[callers'[c].load])]_vars

====
